---- MODULE Spec2Model ----
(***************************************************************************)
(* Cookest meal-recommendation core: preference learning                   *)
(* (services/preference.rs), weekly plan generation, plan persistence and  *)
(* the shopping list (services/meal_plan.rs), with the interaction and     *)
(* inventory services that feed them.                                      *)
(*                                                                         *)
(* Numbers.  Every f64 (weight, signal, score) is an integer counting      *)
(* units of 1e-5, so One = 10^5 stands for 1.0 and a value rounded to 3    *)
(* decimals is a multiple of One/1000.  f64 arithmetic is modelled by      *)
(* exact arithmetic on these integers; where the exact value lies exactly  *)
(* half way between two thousandths the f64 result is known to round       *)
(* either way, and the model keeps both outcomes.                          *)
(***************************************************************************)
EXTENDS Integers, Sequences, FiniteSets, TLC

\* ------------------------------------------------------------------ bounds
MaxCalls == 3
MaxLearn == 2
MaxOps == 3
MaxShop == 4
MaxRace == 2
MaxPlans == 2
MaxNow == 21
MaxFailures == 1
MaxRatings == 60
MaxSeed == 1
MaxDecay == 30
MaxLogins == 6
MaxMinute == 20
MaxTokenCalls == 4
TICK_MINUTES == 5
MaxPasswordLen == 4
MaxValidations == 1
MaxTurns == 3
MaxLoops == 1

\* ------------------------------------------------------- program constants
LEARNING_RATE_DEN == 10
INGREDIENT_DAMPING_DEN == 2
TIME_WINDOW_MIN == 60
DEFAULT_PREFERRED_TIME == 30
RECENT_DAYS == 14
EXPIRY_DAYS == 7
DAILY_CALORIES == 2000
DAILY_PROTEIN_G == 50
DAYS_PER_WEEK == 7
HANDLER_SERVINGS_MADE == 2

MAX_FAILED_ATTEMPTS == 5
LOCKOUT_DURATION_MINUTES == 15
Milli == 1000
One == 100 * Milli

\* Option<T>: None is the empty tuple, Some(x) the tuple of x
None == <<>>
Some(x) == <<x>>
IsSome(o) == o # <<>>
Get(o) == o[1]

\* no row of user_preferences for the user
NoRow == <<>>

Users == {"u1", "u2"}
Procs == {1, 2}

Abs(x) == IF x < 0 THEN -x ELSE x
Min(a, b) == IF a < b THEN a ELSE b
Max(a, b) == IF a > b THEN a ELSE b

VARIABLES
    now,                \* the clock, in days (Utc::now())
    catalog,            \* which catalog the store holds (see recipes)
    user_preferences,   \* table user_preferences: user -> row | NoRow
    cooking_history,    \* table cooking_history
    user_favorites,     \* table user_favorites
    inventory_items,    \* table inventory_items
    meal_plans,         \* table meal_plans
    meal_plan_slots,    \* table meal_plan_slots
    next_id,            \* BIGSERIAL sequences of meal_plans and meal_plan_slots
    written,            \* history: plan id -> the slots its generate call selected
    pc,                 \* per request task: the statement it is at
    local,              \* per request task: its local variables
    last,               \* the last call that returned: what it was and what it returned
    calls,              \* number of calls started
    failures,           \* number of storage failures injected
    users,              \* table users: user -> row (the columns auth.rs uses)
    minute,             \* the clock as the auth service reads it, in minutes
    next_jti,           \* the jti the next token gets (generate_jti is unique)
    issued,             \* history: jti -> how often refresh_token took it, and is it superseded
    wrong,              \* history: user -> failed password attempts since the last login
    listed              \* history: the last shopping list built, its plan and inventory map, and the list before

vars == <<now, catalog, user_preferences, cooking_history, user_favorites,
          inventory_items, meal_plans, meal_plan_slots, next_id, written, pc,
          local, last, calls, failures, users, minute, next_jti, issued,
          wrong, listed>>

\* what the auth service reads and writes, with its history
Accounts == <<users, minute, next_jti, issued, wrong>>

\* ------------------------------------------------------------ the catalog
IngredientName(id) ==
    CASE id = 1 -> "tomato" [] id = 2 -> "pasta" [] id = 3 -> "rice" [] OTHER -> "salt"

Recipe(cuisine, category, difficulty, time, ings, nutrition) ==
    [cuisine |-> cuisine, category |-> category, difficulty |-> difficulty,
     servings |-> 2, total_time_min |-> time, ingredients |-> ings,
     nutrition |-> nutrition]

Ing(id, grams) == [ingredient_id |-> id, quantity_grams |-> grams]
Nutrition(cal, p, c, f) == [calories |-> cal, protein_g |-> p, carbs_g |-> c, fat_g |-> f]

\* Recipes for preference learning: one with every feature, one without
\* difficulty and time whose ingredient has no gram weight and whose
\* nutrition row is extreme (400 g of protein per kcal).
PrefCatalog ==
    (1 :> Recipe(Some("italian"), Some("main"), Some("easy"), Some(33),
                 {Ing(1, Some(100)), Ing(2, Some(200))},
                 Some(Nutrition(400, 25, 50, 10))))
 @@ (2 :> Recipe(Some("japanese"), Some("breakfast"), None, None,
                 {Ing(3, None)}, Some(Nutrition(1, 100, 0, 0))))

\* For scoring, one more recipe: no cuisine, difficulty, time, ingredients
\* or nutrition.
ScoreCatalog ==
    PrefCatalog @@ (3 :> Recipe(None, None, None, None, {}, None))

\* For the plan store: two more recipes that fit lunch and dinner, so that
\* recipes 1, 3 and 4 can be planned and recipe 2 (breakfast) never is.
PlanCatalog ==
    PrefCatalog
 @@ (3 :> Recipe(Some("japanese"), Some("main"), Some("medium"), Some(20),
                 {Ing(1, Some(150)), Ing(3, Some(80))},
                 Some(Nutrition(600, 30, 60, 20))))
 @@ (4 :> Recipe(Some("italian"), None, None, None, {Ing(2, Some(100))}, None))

\* cuisine of recipe i under cuisine pattern c
DrawnCuisine(c, i) ==
    CASE c = 0 -> None
      [] c = 1 -> Some("italian")
      [] c = 2 -> IF i % 2 = 0 THEN Some("italian") ELSE Some("japanese")
      [] OTHER -> IF i % 3 = 0 THEN None
                  ELSE IF i % 3 = 1 THEN Some("italian") ELSE Some("thai")

\* category of recipe i under category pattern k
DrawnCategory(k, i) ==
    CASE k = 0 -> Some("main")
      [] k = 1 -> IF i % 3 = 0 THEN Some("breakfast") ELSE Some("main")
      [] k = 2 -> IF i % 4 = 1 THEN Some("dessert") ELSE None
      [] OTHER -> None

\* A catalog of n recipes; recipe i uses ingredient 1 + i % 3.
DrawnCatalog(n, c, k) ==
    [i \in 1..n |->
        Recipe(DrawnCuisine(c, i), DrawnCategory(k, i), None, None,
               {Ing(1 + (i % 3), Some(100))},
               IF i % 2 = 0 THEN Some(Nutrition(500 + 100 * i, 20, 40, 10)) ELSE None)]

\* the value of the variable catalog for one of the fixed catalogs
Fixed(kind) == [kind |-> kind, n |-> 0, cuisines |-> 0, categories |-> 0]

MissingRecipe == 99

\* tables recipes, recipe_ingredients and recipe_nutrition: recipe id -> recipe.
\* No operation of the model writes them; the store holds one of the
\* catalogs, chosen when it is set up.
recipes ==
    CASE catalog.kind = "pref" -> PrefCatalog
      [] catalog.kind = "score" -> ScoreCatalog
      [] catalog.kind = "plan" -> PlanCatalog
      [] catalog.kind = "drawn" -> DrawnCatalog(catalog.n, catalog.cuisines, catalog.categories)

\* ------------------------------------------------- preference learning
\* PreferenceSignal: Rated(stars) | Cooked | Favourited | Skipped
Rated(n) == [kind |-> "Rated", stars |-> n]
Cooked == [kind |-> "Cooked", stars |-> 0]
Favourited == [kind |-> "Favourited", stars |-> 0]
Skipped == [kind |-> "Skipped", stars |-> 0]

\* Rated(0) stands for every rating outside 1..5
PreferenceSignals == {Rated(n) : n \in 0..5} \cup {Cooked, Favourited, Skipped}

\* PreferenceSignal::value, in units of 1e-5
SignalValue(s) ==
    CASE s.kind = "Rated" /\ s.stars = 5 -> One
      [] s.kind = "Rated" /\ s.stars = 4 -> (6 * One) \div 10
      [] s.kind = "Rated" /\ s.stars = 3 -> (2 * One) \div 10
      [] s.kind = "Rated" /\ s.stars = 2 -> -((2 * One) \div 10)
      [] s.kind = "Rated" /\ s.stars = 1 -> -((6 * One) \div 10)
      [] s.kind = "Rated" -> 0
      [] s.kind = "Cooked" -> (5 * One) \div 10
      [] s.kind = "Favourited" -> (8 * One) \div 10
      [] s.kind = "Skipped" -> -((3 * One) \div 10)

\* json!({...}) of get_or_create: the row a user starts with
DefaultPref ==
    [cuisine_weights |-> <<>>,
     ingredient_weights |-> <<>>,
     macro_bias |-> [protein |-> 0, carbs |-> 0, fat |-> 0],
     difficulty_weights |-> [easy |-> 0, medium |-> 0, hard |-> 0],
     preferred_time_min |-> DEFAULT_PREFERRED_TIME,
     interaction_count |-> 0]

\* map.get(key).and_then(as_f64).unwrap_or(0.0)
OldWeight(map, key) == IF key \in DOMAIN map THEN map[key] ELSE 0

\* the step taken away from the signal
SteppedAway(old, signal) == old - (signal - old) \div LEARNING_RATE_DEN

\* the signal taken over at once, as with a learning rate of 1.0
Overwritten(old, signal) == signal

\* old + LEARNING_RATE * (signal - old), before clamping and rounding
Stepped(old, signal) == old + (signal - old) \div LEARNING_RATE_DEN

\* the step result stored without clamping
ClampUnbounded(x) == x

\* new.clamp(-1.0, 1.0)
Clamp(x) == Max(-One, Min(One, x))

\* (clamped * 1000.0).round() / 1000.0: f64::round rounds half away from
\* zero; an exact half may have become either side of it in f64, so `up`
\* says whether this one is rounded away from zero.
RoundTo3(x, up) ==
    LET q == One \div Milli
        a == Abs(x)
        k == a \div q
        r == a % q
        n == IF 2 * r > q \/ (2 * r = q /\ up) THEN k + 1 ELSE k
    IN  IF x < 0 THEN -(n * q) ELSE n * q

IsTie(x) == 2 * (Abs(x) % (One \div Milli)) = One \div Milli

\* the value update_weight stores under key
NewWeight(old, signal, up) == RoundTo3(Clamp(Stepped(old, signal)), up)

\* fn update_weight(map, key, signal).  ups holds the <<old, signal>> whose
\* half-way result f64 rounds away from zero: the same computation gives
\* the same f64, so the choice belongs to the pair, not to the key.
update_weight(map, key, signal, ups) ==
    [k \in DOMAIN map \cup {key} |->
        IF k = key
        THEN NewWeight(OldWeight(map, key), signal,
                       <<OldWeight(map, key), signal>> \in ups)
        ELSE map[k]]

\* names of the ingredient rows found for the recipe's recipe_ingredients
IngredientNames(recipe) ==
    {IngredientName(ri.ingredient_id) : ri \in recipe.ingredients}

\* the signals fed to the three macro biases, or none when the recipe has
\* no nutrition row or no calories
MacroSignals(recipe, signal_value) ==
    IF ~IsSome(recipe.nutrition) THEN <<>>
    ELSE IF ~(Get(recipe.nutrition).calories > 0) THEN <<>>
    ELSE LET n == Get(recipe.nutrition)
             \* ratio = grams * kcal / calories, fed as +-ratio * |signal|
             mag(g, kcal) == (g * kcal * Abs(signal_value)) \div n.calories
             fed(g, kcal) == IF signal_value > 0 THEN mag(g, kcal) ELSE -mag(g, kcal)
         IN  [protein |-> fed(n.protein_g, 4),
              carbs |-> fed(n.carbs_g, 4),
              fat |-> fed(n.fat_g, 9)]

\* the <<old, signal>> of record_interaction's update_weight calls that land
\* half way between two thousandths
TiePairs(pref, recipe, signal_value) ==
    LET m == MacroSignals(recipe, signal_value)
        all ==
            {<<OldWeight(pref.cuisine_weights, Get(c)), signal_value>> :
                c \in {recipe.cuisine} \ {None}}
            \cup {<<OldWeight(pref.difficulty_weights, Get(d)), signal_value>> :
                d \in {recipe.difficulty} \ {None}}
            \cup {<<OldWeight(pref.ingredient_weights, nm),
                    signal_value \div INGREDIENT_DAMPING_DEN>> :
                nm \in IngredientNames(recipe)}
            \cup {<<OldWeight(pref.macro_bias, k), m[k]>> : k \in DOMAIN m}
    IN  {p \in all : IsTie(Clamp(Stepped(p[1], p[2])))}

RECURSIVE UpdateIngredients(_, _, _, _)
\* for ing in &ingredients { update_weight(&mut ingredient_weights, &ing.name, signal * 0.5) }
UpdateIngredients(map, names, signal_value, ups) ==
    IF names = {} THEN map
    ELSE LET nm == CHOOSE n \in names : TRUE
         IN  UpdateIngredients(
                update_weight(map, nm, signal_value \div INGREDIENT_DAMPING_DEN, ups),
                names \ {nm}, signal_value, ups)

\* the three update_weight calls on macro_bias
UpdateMacros(map, recipe, signal_value, ups) ==
    LET m == MacroSignals(recipe, signal_value) IN
    IF DOMAIN m = {} THEN map
    ELSE update_weight(
            update_weight(
                update_weight(map, "protein", m.protein, ups),
                "carbs", m.carbs, ups),
            "fat", m.fat, ups)

\* a rolling average that follows every signal, whatever its sign
MeanOnEverySignal(pref, recipe, signal_value) ==
    IF IsSome(recipe.total_time_min)
        THEN (pref.preferred_time_min * pref.interaction_count
                + Get(recipe.total_time_min))
                \div (pref.interaction_count + 1)
        ELSE pref.preferred_time_min

\* the weighted rolling average of preferred_time_min
NewPreferredTime(pref, recipe, signal_value) ==
    IF IsSome(recipe.total_time_min) /\ signal_value > 0
        THEN (pref.preferred_time_min * pref.interaction_count
                + Get(recipe.total_time_min))
                \div (pref.interaction_count + 1)
        ELSE pref.preferred_time_min

\* a row whose interaction_count is counted only for signals of positive value
CountPositiveOnly(pref, recipe, signal, ups) ==
    LET sv == SignalValue(signal) IN
    [cuisine_weights |->
        IF IsSome(recipe.cuisine)
        THEN update_weight(pref.cuisine_weights, Get(recipe.cuisine), sv, ups)
        ELSE pref.cuisine_weights,
     ingredient_weights |->
        UpdateIngredients(pref.ingredient_weights, IngredientNames(recipe), sv, ups),
     macro_bias |-> UpdateMacros(pref.macro_bias, recipe, sv, ups),
     difficulty_weights |->
        IF IsSome(recipe.difficulty)
        THEN update_weight(pref.difficulty_weights, Get(recipe.difficulty), sv, ups)
        ELSE pref.difficulty_weights,
     preferred_time_min |-> NewPreferredTime(pref, recipe, sv),
     interaction_count |-> pref.interaction_count + (IF sv > 0 THEN 1 ELSE 0)]

\* the row record_interaction writes, computed from the row it loaded
RecordInteractionRow(pref, recipe, signal, ups) ==
    LET sv == SignalValue(signal) IN
    [cuisine_weights |->
        IF IsSome(recipe.cuisine)
        THEN update_weight(pref.cuisine_weights, Get(recipe.cuisine), sv, ups)
        ELSE pref.cuisine_weights,
     ingredient_weights |->
        UpdateIngredients(pref.ingredient_weights, IngredientNames(recipe), sv, ups),
     macro_bias |-> UpdateMacros(pref.macro_bias, recipe, sv, ups),
     difficulty_weights |->
        IF IsSome(recipe.difficulty)
        THEN update_weight(pref.difficulty_weights, Get(recipe.difficulty), sv, ups)
        ELSE pref.difficulty_weights,
     preferred_time_min |-> NewPreferredTime(pref, recipe, sv),
     interaction_count |-> pref.interaction_count + 1]

RECURSIVE SumOver(_, _)
\* the sum of f[x] over the set S
SumOver(f, S) ==
    IF S = {} THEN 0
    ELSE LET x == CHOOSE y \in S : TRUE IN f[x] + SumOver(f, S \ {x})

\* the components score_recipe_for_user adds up, as a set of <<name, value>>
ScoreComponents(pref, recipe) ==
    (IF IsSome(recipe.cuisine) /\ Get(recipe.cuisine) \in DOMAIN pref.cuisine_weights
        THEN {<<"cuisine", pref.cuisine_weights[Get(recipe.cuisine)]>>} ELSE {})
    \cup (IF IsSome(recipe.difficulty)
             /\ Get(recipe.difficulty) \in DOMAIN pref.difficulty_weights
        THEN {<<"difficulty", pref.difficulty_weights[Get(recipe.difficulty)]>>}
        ELSE {})
    \cup (IF IsSome(recipe.total_time_min)
        THEN LET diff == Abs(Get(recipe.total_time_min) - pref.preferred_time_min)
             IN  {<<"time", One - Min((diff * One) \div TIME_WINDOW_MIN, One)>>}
        ELSE {})
    \cup (IF recipe.ingredients # {}
        THEN LET names == IngredientNames(recipe)
                 known == names \cap DOMAIN pref.ingredient_weights
             IN  {<<"ingredients",
                    SumOver(pref.ingredient_weights, known)
                        \div Max(Cardinality(names), 1)>>}
        ELSE {})

\* the f64 score_recipe_for_user returns for a recipe that exists
Score(pref, recipe) ==
    LET cs == ScoreComponents(pref, recipe)
        components == Cardinality(cs)
        score == SumOver([c \in cs |-> c[2]], cs)
        raw == IF components > 0 THEN score \div components ELSE 0
    IN  Max(0, Min(One, raw))

\* fn get_or_create: the row it returns
GetOrCreateRow(prefs, u) == IF prefs[u] = NoRow THEN DefaultPref ELSE prefs[u]

\* fn get_or_create: the table after it (the row is inserted when missing)
GetOrCreateTable(prefs, u) == [prefs EXCEPT ![u] = GetOrCreateRow(prefs, u)]

\* ------------------------------------------------------ plan generation
\* every category taken to fit every meal type
FitsAnyMeal(category, meal_type) == TRUE

\* fn fits_meal_type(category, meal_type)
fits_meal_type(category, meal_type) ==
    IF category = Some("breakfast") /\ meal_type = "breakfast" THEN TRUE
    ELSE IF category = Some("breakfast") THEN FALSE
    ELSE IF category = Some("dessert") THEN FALSE
    ELSE TRUE

\* the date get_current_plan and get_shopping_list compute: the Monday of
\* today's week (day 0 is a Monday)
CurrentWeekStart == now - (now % DAYS_PER_WEEK)

\* the user's rows of inventory_items
InventoryOf(u) == {i \in inventory_items : i.user_id = u}

\* user_ingredient_ids
UserIngredientIds(u) == {i.ingredient_id : i \in InventoryOf(u)}

\* expiring_ids: expiry_date <= today + 7 days
ExpiringIds(u) ==
    {i.ingredient_id : i \in {j \in InventoryOf(u) :
        IsSome(j.expiry_date) /\ Get(j.expiry_date) <= now + EXPIRY_DAYS}}

\* recent_recipes: cooked_at >= now - 14 days
RecentRecipes(u) ==
    {h.recipe_id : h \in {x \in cooking_history :
        x.user_id = u /\ x.cooked_at >= now - RECENT_DAYS}}

\* favourite_ids
FavouriteIds(u) == {f[2] : f \in {g \in user_favorites : g[1] = u}}

\* nutrition_balance of a candidate, against the constant weekly gap
NutritionBalance(recipe, household_size) ==
    IF IsSome(recipe.nutrition)
    THEN LET n == Get(recipe.nutrition)
             servings == Max(recipe.servings, 1)
             cal_gap == Max(DAILY_CALORIES * DAYS_PER_WEEK, 1)
             pro_gap == Max(DAILY_PROTEIN_G * DAYS_PER_WEEK, 1)
             cal_score == Min((n.calories * household_size * One)
                                \div (servings * cal_gap), One)
             pro_score == Min((n.protein_g * household_size * One)
                                \div (servings * pro_gap), One)
         IN  (cal_score + pro_score) \div 2
    ELSE One \div 2

\* total_score of a candidate, in units of 1e-7 (the five weights are
\* hundredths); pref is the row score_recipe_for_user works on
TotalScore(u, pref, rid, household_size) ==
    LET recipe == recipes[rid]
        total_ings == Max(Cardinality(recipe.ingredients), 1)
        owned_ings == Cardinality({l \in recipe.ingredients :
                        l.ingredient_id \in UserIngredientIds(u)})
        ingredient_coverage == (owned_ings * One) \div total_ings
        expiring_used == Cardinality({l \in recipe.ingredients :
                        l.ingredient_id \in ExpiringIds(u)})
        expiry_urgency == Min((expiring_used * One) \div total_ings, One)
        ml_preference == Score(pref, recipe)
        variety_bonus == IF rid \in RecentRecipes(u) THEN -((3 * One) \div 10)
                         ELSE IF rid \in FavouriteIds(u) THEN One \div 10
                         ELSE 0
        nutrition_balance == NutritionBalance(recipe, household_size)
    IN  ingredient_coverage * 30 + expiry_urgency * 25 + ml_preference * 25
        + nutrition_balance * 12 + variety_bonus * 8

\* one RecipeScore
RecipeScore(u, pref, rid, household_size) ==
    [recipe_id |-> rid,
     total_score |-> TotalScore(u, pref, rid, household_size),
     cuisine |-> recipes[rid].cuisine,
     category |-> recipes[rid].category]

RECURSIVE AscendingFrom(_, _)
\* the ids of S from id upwards, ascending (order_by_asc(recipe::Column::Id))
AscendingFrom(S, id) ==
    IF S = {} THEN <<>>
    ELSE IF id \in S THEN <<id>> \o AscendingFrom(S \ {id}, id + 1)
    ELSE AscendingFrom(S, id + 1)

\* every recipe by ascending id, none skipped
EveryRecipe(u) == AscendingFrom(DOMAIN recipes, 0)

\* the candidates in scoring order: every recipe by ascending id, the
\* recently cooked ones skipped
Candidates(u) == AscendingFrom(DOMAIN recipes \ RecentRecipes(u), 0)

\* scored, before the sort
Scored(u, pref, household_size) ==
    LET ids == Candidates(u)
    IN  [i \in 1..Len(ids) |-> RecipeScore(u, pref, ids[i], household_size)]

RECURSIVE InsertBeforeEqual(_, _)
\* x placed in the descending list before the elements equal to it
InsertBeforeEqual(x, sorted) ==
    IF sorted = <<>> THEN <<x>>
    ELSE IF Head(sorted).total_score > x.total_score
        THEN <<Head(sorted)>> \o InsertBeforeEqual(x, Tail(sorted))
        ELSE <<x>> \o sorted

RECURSIVE InsertDesc(_, _)
\* x placed in the descending list after every element not smaller than it
InsertDesc(x, sorted) ==
    IF sorted = <<>> THEN <<x>>
    ELSE IF Head(sorted).total_score >= x.total_score
        THEN <<Head(sorted)>> \o InsertDesc(x, Tail(sorted))
        ELSE <<x>> \o sorted

RECURSIVE SortDesc(_, _)
\* scored.sort_by(|a, b| b.total_score.partial_cmp(&a.total_score)): a stable
\* sort, descending by total_score
SortDesc(scored, done) ==
    IF scored = <<>> THEN done
    ELSE SortDesc(Tail(scored), InsertDesc(Head(scored), done))

\* a find that takes the best fitting recipe whether or not it is used
FindReusing(scored, cursor, used, meal_type, used_today) ==
    LET fitting == {i \in 1..Len(scored) :
                       /\ fits_meal_type(scored[i].category, meal_type)
                       /\ (meal_type = "dinner" => scored[i].cuisine # used_today)}
    IN  IF fitting = {} THEN Len(scored) + 1
        ELSE CHOOSE i \in fitting : \A j \in fitting : i <= j

\* a find that takes a dinner of any cuisine
FindAnyCuisine(scored, cursor, used, meal_type, used_today) ==
    LET fitting == {i \in cursor..Len(scored) :
                       /\ scored[i].recipe_id \notin used
                       /\ fits_meal_type(scored[i].category, meal_type)}
    IN  IF fitting = {} THEN Len(scored) + 1
        ELSE CHOOSE i \in fitting : \A j \in fitting : i <= j

\* a find that starts over from the head of the list at every slot
FindFromHead(scored, cursor, used, meal_type, used_today) ==
    LET fitting == {i \in 1..Len(scored) :
                       /\ scored[i].recipe_id \notin used
                       /\ fits_meal_type(scored[i].category, meal_type)
                       /\ (meal_type = "dinner" => scored[i].cuisine # used_today)}
    IN  IF fitting = {} THEN Len(scored) + 1
        ELSE CHOOSE i \in fitting : \A j \in fitting : i <= j

RECURSIVE FindFrom(_, _, _, _, _)
\* score_iter.find(..): the first position from cursor on whose recipe is
\* unused, fits the meal type and, when diverse is set, has a cuisine other
\* than used_today; Len + 1 when there is none (the iterator is then spent)
FindFrom(scored, cursor, used, meal_type, used_today) ==
    IF cursor > Len(scored) THEN Len(scored) + 1
    ELSE IF /\ scored[cursor].recipe_id \notin used
            /\ fits_meal_type(scored[cursor].category, meal_type)
            /\ (meal_type = "dinner" => scored[cursor].cuisine # used_today)
        THEN cursor
        ELSE FindFrom(scored, cursor + 1, used, meal_type, used_today)

\* every slot put on the first day
SlotOnFirstDay(recipe_id, day, meal_type) == <<recipe_id, 0, meal_type>>

\* selected.push((recipe.recipe_id, day, meal_type))
Slot(recipe_id, day, meal_type) == <<recipe_id, day, meal_type>>

RECURSIVE SelectFrom(_, _, _, _)
\* the greedy loop from day on; selected holds <<recipe_id, day, meal_type>>
SelectFrom(scored, day, cursor, selected) ==
    IF day >= DAYS_PER_WEEK THEN selected
    ELSE
    LET used == {x[1] : x \in {selected[i] : i \in 1..Len(selected)}}
        lunch == FindFrom(scored, cursor, used, "lunch", None)
        got_lunch == lunch <= Len(scored)
        after_lunch == IF got_lunch
                       THEN Append(selected, Slot(scored[lunch].recipe_id, day, "lunch"))
                       ELSE selected
        used1 == IF got_lunch THEN used \cup {scored[lunch].recipe_id} ELSE used
        used_today == IF got_lunch THEN scored[lunch].cuisine ELSE None
        cursor1 == IF got_lunch THEN lunch + 1 ELSE lunch
        dinner == FindFrom(scored, cursor1, used1, "dinner", used_today)
        got_dinner == dinner <= Len(scored)
        after_dinner == IF got_dinner
                        THEN Append(after_lunch, Slot(scored[dinner].recipe_id, day, "dinner"))
                        ELSE after_lunch
        cursor2 == IF got_dinner THEN dinner + 1 ELSE dinner
    IN  SelectFrom(scored, day + 1, cursor2, after_dinner)

\* the plan generate_week_plan selects for the user from the store as it is
SortedScores(u, household_size) ==
    SortDesc(Scored(u, GetOrCreateRow(user_preferences, u), household_size), <<>>)

Selected(u, household_size) == SelectFrom(SortedScores(u, household_size), 0, 1, <<>>)

\* ------------------------------------------------------- authentication
\* the passwords a client sends: the one the account was registered with and
\* another one
Passwords == {"registered", "other"}

\* hash_password: an Argon2id hash of the password (the salt left out)
hash_password(password) == <<"argon2id", password>>

\* verify_password(password, hash)
verify_password(password, hash) == hash = hash_password(password)

\* generate_refresh_token: a signed JWT with the claims sub, token_type and
\* a fresh jti
RefreshToken(u, jti) == [sub |-> u, token_type |-> "refresh", jti |-> jti]

\* generate_access_token
AccessToken(u, jti) == [sub |-> u, token_type |-> "access", jti |-> jti]

\* validate_refresh_token: the claims of a token this service signed, if it
\* is a refresh token
validate_refresh_token(token) ==
    IF token.token_type = "refresh" THEN "Ok" ELSE "InvalidToken"

\* hash_token: the DefaultHasher digest of the token, in hex
hash_token(token) == <<"hex", token.token_type, token.jti>>

\* the row register inserts
RegisteredRow ==
    [password_hash |-> hash_password("registered"),
     refresh_token_hash |-> None,
     failed_login_attempts |-> 0,
     locked_until |-> None]

\* no failed password attempt yet; `at` is the minute at which the
\* MAX_FAILED_ATTEMPTS-th one returned
NoneWrong == [n |-> 0, at |-> 0]

\* ---- validate_password_strength
\* The characters passwords are drawn from: an uppercase and a lowercase
\* letter, an ASCII digit, a punctuation mark, a space, a letter without case
\* (U+4E2D) and a digit outside ASCII (U+0663)
Chars == {"A", "a", "7", "!", " ", "U+4E2D", "U+0663"}

\* char::is_uppercase
is_uppercase(c) == c = "A"

\* char::is_lowercase
is_lowercase(c) == c = "a"

\* char::is_ascii_digit
is_ascii_digit(c) == c = "7"

\* no character taken for alphanumeric
NeverAlphanumeric(c) == FALSE

\* char::is_alphanumeric: Alphabetic or Numeric in Unicode
is_alphanumeric(c) == c \in {"A", "a", "7", "U+4E2D", "U+0663"}

\* fn validate_password_strength(password): Ok, or the message of the
\* first requirement that is not met
validate_password_strength(password) ==
    LET chars == 1..Len(password)
        has_uppercase == \E i \in chars : is_uppercase(password[i])
        has_lowercase == \E i \in chars : is_lowercase(password[i])
        has_digit == \E i \in chars : is_ascii_digit(password[i])
        has_special == \E i \in chars : ~is_alphanumeric(password[i])
    IN  IF ~has_uppercase THEN "uppercase letter"
        ELSE IF ~has_lowercase THEN "lowercase letter"
        ELSE IF ~has_digit THEN "digit"
        ELSE IF ~has_special THEN "special character"
        ELSE "Ok"

RECURSIVE StringsUpTo(_)
\* the strings over Chars of length up to n
StringsUpTo(n) ==
    IF n = 0 THEN {<<>>}
    ELSE LET shorter == StringsUpTo(n - 1)
         IN  shorter \cup {Append(w, c) : w \in shorter, c \in Chars}

\* ------------------------------------------------------------ the store
Idle == [p \in Procs |-> "idle"]
NoLocal == [p \in Procs |-> <<>>]

\* `last` records the call that returned last: its name, arguments, status
\* ("Ok", "NotFound", "DbErr") and, for a score, the value returned
NoCall == [op |-> "none", user |-> "none", recipe |-> 0, status |-> "none",
           value |-> 0]

Returned(op, u, rid, status, value) ==
    [op |-> op, user |-> u, recipe |-> rid, status |-> status, value |-> value]

\* no shopping list built yet
NoneListed == [plan |-> 0, list |-> <<>>, have |-> <<>>, earlier |-> <<>>]

\* the store with the given inventory and favourites and nothing else
StoreWith(inv, favs) ==
    /\ now = 0
    /\ user_preferences = [u \in Users |-> NoRow]
    /\ cooking_history = {}
    /\ user_favorites = favs
    /\ inventory_items = inv
    /\ meal_plans = {}
    /\ meal_plan_slots = {}
    /\ next_id = [plan |-> 1, slot |-> 1]
    /\ written = <<>>
    /\ pc = Idle
    /\ local = NoLocal
    /\ last = NoCall
    /\ calls = 0
    /\ failures = 0
    /\ users = [u \in Users |-> RegisteredRow]
    /\ minute = 0
    /\ next_jti = 1
    /\ issued = <<>>
    /\ wrong = [u \in Users |-> NoneWrong]
    /\ listed = NoneListed

EmptyStore == StoreWith({}, {})

\* ------------------------------------------- preference calls, one at a time
PrefUsers == {"u1"}

PrefInit ==
    /\ EmptyStore
    /\ catalog = Fixed("pref")

\* PreferenceService::record_interaction, run to completion
RecordInteraction(u, rid, signal) ==
    /\ calls' = calls + 1
    /\ LET pref == GetOrCreateRow(user_preferences, u)
           created == GetOrCreateTable(user_preferences, u)
       IN  IF rid \notin DOMAIN recipes
           THEN /\ user_preferences' = created
                /\ last' = Returned("record_interaction", u, rid, "NotFound", 0)
           ELSE \E ups \in SUBSET TiePairs(pref, recipes[rid], SignalValue(signal)) :
                /\ user_preferences' =
                      [created EXCEPT
                         ![u] = RecordInteractionRow(pref, recipes[rid], signal, ups)]
                /\ last' = Returned("record_interaction", u, rid, "Ok", 0)
    /\ UNCHANGED <<now, catalog, listed, Accounts, cooking_history, user_favorites, inventory_items,
                   meal_plans, meal_plan_slots, next_id, written, pc, local,
                   failures>>

\* PreferenceService::score_recipe_for_user, run to completion
ScoreRecipeForUser(u, rid) ==
    /\ LET pref == GetOrCreateRow(user_preferences, u) IN
       /\ user_preferences' = GetOrCreateTable(user_preferences, u)
       /\ last' = IF rid \notin DOMAIN recipes
                  THEN Returned("score_recipe_for_user", u, rid, "NotFound", 0)
                  ELSE Returned("score_recipe_for_user", u, rid, "Ok",
                                Score(pref, recipes[rid]))
    /\ UNCHANGED <<now, catalog, listed, Accounts, cooking_history, user_favorites, inventory_items,
                   meal_plans, meal_plan_slots, next_id, written, pc, local,
                   calls, failures>>

\* preference learning alone: up to MaxCalls interactions of one user
PrefNext ==
    /\ calls < MaxCalls
    /\ \E u \in PrefUsers, rid \in DOMAIN recipes \cup {MissingRecipe},
          signal \in PreferenceSignals : RecordInteraction(u, rid, signal)

PrefSpec == PrefInit /\ [][PrefNext]_vars

\* scoring against what up to MaxLearn interactions have learned
ScoreNext ==
    \/ /\ calls < MaxLearn
       /\ \E u \in PrefUsers, rid \in DOMAIN recipes \cup {MissingRecipe},
             signal \in PreferenceSignals : RecordInteraction(u, rid, signal)
    \/ \E u \in PrefUsers, rid \in DOMAIN recipes \cup {MissingRecipe} :
          ScoreRecipeForUser(u, rid)

ScoreInit ==
    /\ EmptyStore
    /\ catalog = Fixed("score")

ScoreSpec == ScoreInit /\ [][ScoreNext]_vars

\* the same recipe rated five stars again and again, up to MaxRatings times
RateNext ==
    \E u \in PrefUsers :
        /\ GetOrCreateRow(user_preferences, u).interaction_count < MaxRatings
        /\ RecordInteraction(u, 1, Rated(5))

RateSpec == PrefInit /\ [][RateNext]_vars

\* up to MaxSeed interactions that leave weights, then up to MaxDecay
\* ratings of recipe 1 outside 1..5, whose signal value is 0.0
DecayNext ==
    \/ /\ calls < MaxSeed
       /\ \E rid \in DOMAIN recipes \cup {MissingRecipe},
             signal \in PreferenceSignals : RecordInteraction("u1", rid, signal)
    \/ /\ calls >= MaxSeed
       /\ calls < MaxSeed + MaxDecay
       /\ RecordInteraction("u1", 1, Rated(0))

DecaySpec == PrefInit /\ [][DecayNext]_vars

\* ------------------------------------------------------- request tasks
\* A call occupies a request task from the step that takes its arguments to
\* the step that returns.  Every step between is one awaited database
\* statement (or a run of reads of tables nothing writes), so that calls of
\* different tasks interleave where the statements of the handlers can.

Tables == <<user_preferences, cooking_history, user_favorites, inventory_items,
            meal_plans, meal_plan_slots>>

\* the task goes on to the statement at label with locals loc
Goto(p, label, loc) ==
    /\ pc' = [pc EXCEPT ![p] = label]
    /\ local' = [local EXCEPT ![p] = loc]
    /\ UNCHANGED last

\* the call of the task returns status and value
Return(p, status, value) ==
    /\ pc' = [pc EXCEPT ![p] = "idle"]
    /\ local' = [local EXCEPT ![p] = <<>>]
    /\ last' = Returned(local[p].op, local[p].user, 0, status, value)

\* the <<recipe_id, day_of_week, meal_type>> of a stored slot
SlotKey(s) == <<s.recipe_id, s.day_of_week, s.meal_type>>

\* the rows of meal_plan_slots of plan id
SlotsOf(slots, id) == {s \in slots : s.meal_plan_id = id}

\* the set of the elements of a sequence
Range(seq) == {seq[i] : i \in 1..Len(seq)}

\* no plan found, whatever is stored
NoExistingPlans(u, week_start) == {}

\* the user's plans of every week
ExistingPlansAnyWeek(u, week_start) == {m \in meal_plans : m.user_id = u}

\* meal_plan::Entity::find() filtered by user_id and week_start
ExistingPlans(u, week_start) ==
    {m \in meal_plans : m.user_id = u /\ m.week_start = week_start}

\* UNIQUE(user_id, week_start) of meal_plans refuses the row
PlanRefused(u, week_start) ==
    \E m \in meal_plans : m.user_id = u /\ m.week_start = week_start

\* the constraints of meal_plan_slots refuse the row: the foreign key to
\* meal_plans, CHECK (day_of_week BETWEEN 0 AND 6) and
\* UNIQUE(meal_plan_id, day_of_week, meal_type)
SlotRefused(plan_id, day, meal_type) ==
    \/ ~(\E m \in meal_plans : m.id = plan_id)
    \/ day \notin 0..6
    \/ \E s \in meal_plan_slots :
          s.meal_plan_id = plan_id /\ s.day_of_week = day /\ s.meal_type = meal_type

\* ---- generate_week_plan
CallGenerateWeekPlan(p, u, household_size, week_start) ==
    /\ pc[p] = "idle"
    /\ calls' = calls + 1
    /\ Goto(p, "gen_load",
            [op |-> "generate_week_plan", user |-> u,
             household_size |-> household_size, week_start |-> week_start,
             selected |-> <<>>, existing |-> None, saved |-> 0, i |-> 1])
    /\ UNCHANGED <<now, catalog, listed, Accounts, Tables, next_id, written, failures>>

\* steps 1 to 3: load the context, score every candidate (the first score
\* creates the user's preference row), sort and select
GenLoad(p) ==
    /\ pc[p] = "gen_load"
    /\ LET l == local[p] IN
       /\ user_preferences' =
             IF Candidates(l.user) = <<>> THEN user_preferences
             ELSE GetOrCreateTable(user_preferences, l.user)
       /\ Goto(p, "gen_find",
               [l EXCEPT !.selected = Selected(l.user, l.household_size)])
    /\ UNCHANGED <<now, catalog, listed, Accounts, cooking_history, user_favorites, inventory_items,
                   meal_plans, meal_plan_slots, next_id, written, calls, failures>>

\* step 4: is there a plan for this week?
GenFind(p) ==
    /\ pc[p] = "gen_find"
    /\ LET l == local[p]
           found == ExistingPlans(l.user, l.week_start)
       IN  IF found = {}
           THEN Goto(p, "gen_insert_plan", l)
           ELSE \E m \in found :
                    Goto(p, "gen_delete_slots", [l EXCEPT !.existing = Some(m.id)])
    /\ UNCHANGED <<now, catalog, listed, Accounts, Tables, next_id, written, calls, failures>>

\* meal_plan_slot::Entity::delete_many() of the existing plan
GenDeleteSlots(p) ==
    /\ pc[p] = "gen_delete_slots"
    /\ meal_plan_slots' =
          meal_plan_slots \ SlotsOf(meal_plan_slots, Get(local[p].existing))
    /\ Goto(p, "gen_delete_plan", local[p])
    /\ UNCHANGED <<now, catalog, listed, Accounts, user_preferences, cooking_history, user_favorites,
                   inventory_items, meal_plans, next_id, written, calls, failures>>

\* meal_plan::Entity::delete_by_id(existing.id); ON DELETE CASCADE takes the
\* slots that point at it
GenDeletePlan(p) ==
    /\ pc[p] = "gen_delete_plan"
    /\ meal_plans' = {m \in meal_plans : m.id # Get(local[p].existing)}
    /\ meal_plan_slots' =
          meal_plan_slots \ SlotsOf(meal_plan_slots, Get(local[p].existing))
    /\ Goto(p, "gen_insert_plan", local[p])
    /\ UNCHANGED <<now, catalog, listed, Accounts, user_preferences, cooking_history, user_favorites,
                   inventory_items, next_id, written, calls, failures>>

\* plan.insert(): with nothing selected the call returns here
GenInsertPlan(p) ==
    /\ pc[p] = "gen_insert_plan"
    /\ LET l == local[p] IN
       IF PlanRefused(l.user, l.week_start)
       THEN /\ Return(p, "DbErr", 0)
            /\ UNCHANGED <<meal_plans, next_id, written>>
       ELSE /\ meal_plans' = meal_plans \cup
                  {[id |-> next_id.plan, user_id |-> l.user,
                    week_start |-> l.week_start]}
            /\ next_id' = [next_id EXCEPT !.plan = @ + 1]
            /\ written' = (next_id.plan :> Range(l.selected)) @@ written
            /\ IF l.selected = <<>>
               THEN Return(p, "Ok", next_id.plan)
               ELSE Goto(p, "gen_insert_slot", [l EXCEPT !.saved = next_id.plan])
    /\ UNCHANGED <<now, catalog, listed, Accounts, user_preferences, cooking_history, user_favorites,
                   inventory_items, meal_plan_slots, calls, failures>>

\* slot.insert() of selected[i]; after the last one the call returns
GenInsertSlot(p) ==
    /\ pc[p] = "gen_insert_slot"
    /\ LET l == local[p]
           sel == l.selected[l.i]
       IN  IF SlotRefused(l.saved, sel[2], sel[3])
           THEN /\ Return(p, "DbErr", 0)
                /\ UNCHANGED <<meal_plan_slots, next_id>>
           ELSE /\ meal_plan_slots' = meal_plan_slots \cup
                      {[id |-> next_id.slot, meal_plan_id |-> l.saved,
                        recipe_id |-> sel[1], day_of_week |-> sel[2],
                        meal_type |-> sel[3],
                        servings_override |-> Some(l.household_size),
                        is_completed |-> FALSE]}
                /\ next_id' = [next_id EXCEPT !.slot = @ + 1]
                /\ IF l.i = Len(l.selected)
                   THEN Return(p, "Ok", l.saved)
                   ELSE Goto(p, "gen_insert_slot", [l EXCEPT !.i = @ + 1])
    /\ UNCHANGED <<now, catalog, listed, Accounts, user_preferences, cooking_history, user_favorites,
                   inventory_items, meal_plans, written, calls, failures>>

GenerateWeekPlanStep(p) ==
    \/ GenLoad(p)
    \/ GenFind(p)
    \/ GenDeleteSlots(p)
    \/ GenDeletePlan(p)
    \/ GenInsertPlan(p)
    \/ GenInsertSlot(p)

\* the statement the task is at fails: its `?` returns the error
Fail(p) ==
    /\ pc[p] # "idle"
    /\ failures < MaxFailures
    /\ failures' = failures + 1
    /\ Return(p, "DbErr", 0)
    /\ UNCHANGED <<now, catalog, listed, Accounts, Tables, next_id, written, calls>>

\* ---- get_current_plan
CallGetCurrentPlan(p, u) ==
    /\ pc[p] = "idle"
    /\ calls' = calls + 1
    /\ Goto(p, "cur_find",
            [op |-> "get_current_plan", user |-> u,
             week_start |-> CurrentWeekStart, plan |-> 0])
    /\ UNCHANGED <<now, catalog, listed, Accounts, Tables, next_id, written, failures>>

\* the plan of the week, or Ok(None)
CurFind(p) ==
    /\ pc[p] = "cur_find"
    /\ LET l == local[p]
           found == ExistingPlans(l.user, l.week_start)
       IN  IF found = {}
           THEN Return(p, "Ok", None)
           ELSE \E m \in found : Goto(p, "cur_slots", [l EXCEPT !.plan = m.id])
    /\ UNCHANGED <<now, catalog, listed, Accounts, Tables, next_id, written, calls, failures>>

\* the slots of the plan; the recipes joined to them are read from tables
\* nothing writes
CurSlots(p) ==
    /\ pc[p] = "cur_slots"
    /\ Return(p, "Ok", Some([id |-> local[p].plan,
                             slots |-> SlotsOf(meal_plan_slots, local[p].plan)]))
    /\ UNCHANGED <<now, catalog, listed, Accounts, Tables, next_id, written, calls, failures>>

GetCurrentPlanStep(p) == CurFind(p) \/ CurSlots(p)

\* ---- get_shopping_list
\* the rows of recipe_ingredients of the recipes, as <<recipe_id, row>>
RequiredIngredients(recipe_ids) ==
    UNION {{<<r, ri>> : ri \in recipes[r].ingredients} : r \in recipe_ids}

\* needed: per ingredient the sum of the quantity_grams that are not NULL
Needed(recipe_ids) ==
    LET weighed == {x \in RequiredIngredients(recipe_ids) :
                        IsSome(x[2].quantity_grams)}
        rows(k) == {x \in weighed : x[2].ingredient_id = k}
    IN  [k \in {x[2].ingredient_id : x \in weighed} |->
            SumOver([x \in rows(k) |-> Get(x[2].quantity_grams)], rows(k))]

\* the maps collect() can build from the user's inventory rows: of the rows
\* of one ingredient the one that comes last, in an order the query leaves
\* open, stays
HaveMaps(u) ==
    {h \in [UserIngredientIds(u) -> {i.quantity : i \in InventoryOf(u)}] :
        \A k \in UserIngredientIds(u) :
            \E i \in InventoryOf(u) : i.ingredient_id = k /\ i.quantity = h[k]}

\* an entry for every ingredient needed
AlwaysBought(needed_qty, have) == TRUE

\* an entry is built only where needed > have
ToBeBought(needed_qty, have) == needed_qty > have

\* the entries of the list, before the sort
ShoppingEntries(needed, have_map) ==
    LET have(k) == IF k \in DOMAIN have_map THEN have_map[k] ELSE 0
    IN  {[ingredient_id |-> k, name |-> IngredientName(k),
          needed_grams |-> needed[k], have_grams |-> have(k),
          to_buy_grams |-> needed[k] - have(k), in_inventory |-> have(k) > 0] :
            k \in {j \in DOMAIN needed : ToBeBought(needed[j], have(j))}}

\* the ingredient names in the order str::cmp gives them
NamesInOrder == <<"pasta", "rice", "salt", "tomato">>

RECURSIVE SortByName(_, _)
\* list.sort_by(name): the entries in the order of their names
SortByName(entries, names) ==
    IF names = <<>> \/ entries = {} THEN <<>>
    ELSE LET same == {e \in entries : e.name = Head(names)}
         IN  IF same = {} THEN SortByName(entries, Tail(names))
             ELSE LET e == CHOOSE x \in same : TRUE
                  IN  <<e>> \o SortByName(entries \ {e}, names)

CallGetShoppingList(p, u) ==
    /\ pc[p] = "idle"
    /\ calls' = calls + 1
    /\ Goto(p, "shop_find",
            [op |-> "get_shopping_list", user |-> u,
             week_start |-> CurrentWeekStart, plan |-> 0, needed |-> <<>>])
    /\ UNCHANGED <<now, catalog, listed, Accounts, Tables, next_id, written, failures>>

\* the plan of the week, or Ok(vec![])
ShopFind(p) ==
    /\ pc[p] = "shop_find"
    /\ LET l == local[p]
           found == ExistingPlans(l.user, l.week_start)
       IN  IF found = {}
           THEN Return(p, "Ok", <<>>)
           ELSE \E m \in found : Goto(p, "shop_slots", [l EXCEPT !.plan = m.id])
    /\ UNCHANGED <<now, catalog, listed, Accounts, Tables, next_id, written, calls, failures>>

\* every slot of the plan, completed or not
EverySlot(slots, id) == SlotsOf(slots, id)

\* filter(IsCompleted.eq(false)): the slots of the plan that are not completed
IncompleteSlots(slots, id) == {s \in SlotsOf(slots, id) : ~s.is_completed}

\* the slots not completed and what their recipes require
ShopSlots(p) ==
    /\ pc[p] = "shop_slots"
    /\ LET l == local[p]
           slots == IncompleteSlots(meal_plan_slots, l.plan)
       IN  Goto(p, "shop_inventory",
                [l EXCEPT !.needed = Needed({s.recipe_id : s \in slots})])
    /\ UNCHANGED <<now, catalog, listed, Accounts, Tables, next_id, written, calls, failures>>

\* the inventory, and the list built from both
ShopInventory(p) ==
    /\ pc[p] = "shop_inventory"
    /\ \E have_map \in HaveMaps(local[p].user) :
          LET list == SortByName(ShoppingEntries(local[p].needed, have_map),
                                 NamesInOrder)
          IN  /\ Return(p, "Ok", list)
              /\ listed' = [plan |-> local[p].plan, list |-> list,
                            have |-> have_map,
                            earlier |-> IF listed.plan = local[p].plan
                                        THEN listed.list ELSE <<>>]
    /\ UNCHANGED <<now, catalog, Accounts, Tables, next_id, written, calls, failures>>

GetShoppingListStep(p) == ShopFind(p) \/ ShopSlots(p) \/ ShopInventory(p)

\* ---- mark_slot_complete
CallMarkSlotComplete(p, u, plan_id, slot_id) ==
    /\ pc[p] = "idle"
    /\ calls' = calls + 1
    /\ Goto(p, "msc_plan",
            [op |-> "mark_slot_complete", user |-> u, plan_id |-> plan_id,
             slot_id |-> slot_id])
    /\ UNCHANGED <<now, catalog, listed, Accounts, Tables, next_id, written, failures>>

\* the plan must exist and belong to the user
MscPlan(p) ==
    /\ pc[p] = "msc_plan"
    /\ IF \E m \in meal_plans : m.id = local[p].plan_id /\ m.user_id = local[p].user
       THEN Goto(p, "msc_slot", local[p])
       ELSE Return(p, "NotFound", 0)
    /\ UNCHANGED <<now, catalog, listed, Accounts, Tables, next_id, written, calls, failures>>

\* the slot must exist
MscSlot(p) ==
    /\ pc[p] = "msc_slot"
    /\ IF \E s \in meal_plan_slots : s.id = local[p].slot_id
       THEN Goto(p, "msc_update", local[p])
       ELSE Return(p, "NotFound", 0)
    /\ UNCHANGED <<now, catalog, listed, Accounts, Tables, next_id, written, calls, failures>>

\* active.update(): is_completed of the row with the slot's id; the update
\* of a row that is gone is an error
MscUpdate(p) ==
    /\ pc[p] = "msc_update"
    /\ IF \E s \in meal_plan_slots : s.id = local[p].slot_id
       THEN /\ meal_plan_slots' =
                  {IF s.id = local[p].slot_id THEN [s EXCEPT !.is_completed = TRUE]
                   ELSE s : s \in meal_plan_slots}
            /\ Return(p, "Ok", 0)
       ELSE /\ UNCHANGED meal_plan_slots
            /\ Return(p, "DbErr", 0)
    /\ UNCHANGED <<now, catalog, listed, Accounts, user_preferences, cooking_history, user_favorites,
                   inventory_items, meal_plans, next_id, written, calls, failures>>

MarkSlotCompleteStep(p) == MscPlan(p) \/ MscSlot(p) \/ MscUpdate(p)

\* ---- record_interaction, statement by statement
CallRecordInteraction(p, u, rid, signal) ==
    /\ pc[p] = "idle"
    /\ calls' = calls + 1
    /\ Goto(p, "rec_find",
            [op |-> "record_interaction", user |-> u, recipe |-> rid,
             signal |-> signal, pref |-> NoRow, new |-> NoRow])
    /\ UNCHANGED <<now, catalog, listed, Accounts, Tables, next_id, written, failures>>

\* get_or_create: find_by_id(user_id)
RecFind(p) ==
    /\ pc[p] = "rec_find"
    /\ IF user_preferences[local[p].user] # NoRow
       THEN Goto(p, "rec_recipe",
                 [local[p] EXCEPT !.pref = user_preferences[local[p].user]])
       ELSE Goto(p, "rec_insert", local[p])
    /\ UNCHANGED <<now, catalog, listed, Accounts, Tables, next_id, written, calls, failures>>

\* get_or_create: new_pref.insert(); the primary key refuses a second row
RecInsert(p) ==
    /\ pc[p] = "rec_insert"
    /\ IF user_preferences[local[p].user] # NoRow
       THEN /\ UNCHANGED user_preferences
            /\ Return(p, "DbErr", 0)
       ELSE /\ user_preferences' =
                  [user_preferences EXCEPT ![local[p].user] = DefaultPref]
            /\ Goto(p, "rec_recipe", [local[p] EXCEPT !.pref = DefaultPref])
    /\ UNCHANGED <<now, catalog, listed, Accounts, cooking_history, user_favorites, inventory_items,
                   meal_plans, meal_plan_slots, next_id, written, calls, failures>>

\* the recipe, its ingredients and nutrition, and the new weights computed
\* from the row that was read
RecRecipe(p) ==
    /\ pc[p] = "rec_recipe"
    /\ LET l == local[p] IN
       IF l.recipe \notin DOMAIN recipes
       THEN Return(p, "NotFound", 0)
       ELSE \E ups \in SUBSET TiePairs(l.pref, recipes[l.recipe], SignalValue(l.signal)) :
                Goto(p, "rec_update",
                     [l EXCEPT !.new = RecordInteractionRow(l.pref, recipes[l.recipe],
                                                            l.signal, ups)])
    /\ UNCHANGED <<now, catalog, listed, Accounts, Tables, next_id, written, calls, failures>>

\* active.update(): every column is Set, the row is overwritten
RecUpdate(p) ==
    /\ pc[p] = "rec_update"
    /\ user_preferences' = [user_preferences EXCEPT ![local[p].user] = local[p].new]
    /\ Return(p, "Ok", 0)
    /\ UNCHANGED <<now, catalog, listed, Accounts, cooking_history, user_favorites, inventory_items,
                   meal_plans, meal_plan_slots, next_id, written, calls, failures>>

RecordInteractionStep(p) == RecFind(p) \/ RecInsert(p) \/ RecRecipe(p) \/ RecUpdate(p)

\* ---- mark_cooked
\* what deduct_for_recipe can make of the inventory for one recipe_ingredients
\* row: .one() takes any of the user's rows of the ingredient
DeductLine(inv, u, ri, servings_made, recipe_servings) ==
    IF ~IsSome(ri.quantity_grams) THEN {inv}
    ELSE LET needed == (Get(ri.quantity_grams) * servings_made)
                            \div Max(recipe_servings, 1)
             items == {i \in inv : i.user_id = u /\ i.ingredient_id = ri.ingredient_id}
         IN  IF items = {} THEN {inv}
             ELSE {IF Max(it.quantity - needed, 0) = 0
                   THEN inv \ {it}
                   ELSE (inv \ {it}) \cup {[it EXCEPT !.quantity = @ - needed]} :
                        it \in items}

RECURSIVE DeductForRecipe(_, _, _, _, _)
\* the inventories deduct_for_recipe can leave, from any of invs
DeductForRecipe(invs, u, ris, servings_made, recipe_servings) ==
    IF ris = {} THEN invs
    ELSE LET ri == CHOOSE x \in ris : TRUE
         IN  DeductForRecipe(
                 UNION {DeductLine(inv, u, ri, servings_made, recipe_servings) :
                            inv \in invs},
                 u, ris \ {ri}, servings_made, recipe_servings)

\* InteractionService::mark_cooked as the handler calls it, run to completion
MarkCooked(u, rid) ==
    /\ calls' = calls + 1
    /\ IF rid \notin DOMAIN recipes
       THEN /\ last' = Returned("mark_cooked", u, rid, "NotFound", 0)
            /\ UNCHANGED <<user_preferences, cooking_history, inventory_items>>
       ELSE LET pref == GetOrCreateRow(user_preferences, u) IN
            /\ \E inv \in DeductForRecipe({inventory_items}, u, recipes[rid].ingredients,
                                          HANDLER_SERVINGS_MADE, recipes[rid].servings) :
                  inventory_items' = inv
            /\ cooking_history' = cooking_history \cup
                  {[user_id |-> u, recipe_id |-> rid, cooked_at |-> now]}
            /\ \E ups \in SUBSET TiePairs(pref, recipes[rid], SignalValue(Cooked)) :
                  user_preferences' =
                     [user_preferences EXCEPT
                        ![u] = RecordInteractionRow(pref, recipes[rid], Cooked, ups)]
            /\ last' = Returned("mark_cooked", u, rid, "Ok", 0)
    /\ UNCHANGED <<now, catalog, listed, Accounts, user_favorites, meal_plans, meal_plan_slots,
                   next_id, written, pc, local, failures>>

\* a week passes
Tick ==
    /\ now + DAYS_PER_WEEK <= MaxNow
    /\ now' = now + DAYS_PER_WEEK
    /\ UNCHANGED <<catalog, listed, Accounts, Tables, next_id, written, pc, local, last,
                   calls, failures>>

\* ---- AuthService::login
\* the rest of the store, which the auth service leaves alone
Rest == <<now, catalog, listed, Tables, next_id, written, failures>>

\* an identity no account has
Nobody == "nobody"

CallLogin(p, u, password) ==
    /\ pc[p] = "idle"
    /\ calls' = calls + 1
    /\ Goto(p, "login_find",
            [op |-> "login", user |-> u, password |-> password,
             found |-> RegisteredRow,
             after_lock |-> u \in DOMAIN wrong /\ wrong[u].n >= MAX_FAILED_ATTEMPTS])
    /\ UNCHANGED <<Rest, Accounts>>

\* find the user, check the lock, verify the password
LoginFind(p) ==
    /\ pc[p] = "login_find"
    /\ LET l == local[p] IN
       IF l.user \notin DOMAIN users
       THEN Return(p, "AuthenticationFailed", 0)
       ELSE LET user == users[l.user] IN
            IF IsSome(user.locked_until) /\ minute < Get(user.locked_until)
            THEN Return(p, "AuthenticationFailed", 0)
            ELSE IF ~verify_password(l.password, user.password_hash)
            THEN Goto(p, "login_increment", [l EXCEPT !.found = user])
            ELSE Goto(p, "login_update", [l EXCEPT !.found = user])
    /\ UNCHANGED <<Rest, Accounts, calls>>

\* increment_failed_attempts: the columns set are written from the row login
\* found; locked_until is written only when the lock is set
LoginIncrement(p) ==
    /\ pc[p] = "login_increment"
    /\ LET l == local[p]
           new_attempts == l.found.failed_login_attempts + 1
       IN  /\ users' =
                [users EXCEPT ![l.user] =
                    [@ EXCEPT !.failed_login_attempts = new_attempts,
                              !.locked_until =
                                  IF new_attempts >= MAX_FAILED_ATTEMPTS
                                  THEN Some(minute + LOCKOUT_DURATION_MINUTES)
                                  ELSE @]]
           /\ wrong' =
                [wrong EXCEPT ![l.user] =
                    [n |-> @.n + 1,
                     at |-> IF @.n + 1 = MAX_FAILED_ATTEMPTS THEN minute ELSE @.at]]
    /\ Return(p, "AuthenticationFailed", 0)
    /\ UNCHANGED <<Rest, calls, minute, next_jti, issued>>

\* every token issued so far is superseded
Superseded == [j \in DOMAIN issued |-> [issued[j] EXCEPT !.superseded = TRUE]]

\* the history of a token just issued
Fresh(jti) == jti :> [times |-> 0, superseded |-> FALSE]

\* the tokens are generated, the attempts reset and the hash of the refresh
\* token stored
LoginUpdate(p) ==
    /\ pc[p] = "login_update"
    /\ LET l == local[p]
           refresh_token == RefreshToken(l.user, next_jti)
       IN  /\ users' =
                [users EXCEPT ![l.user] =
                    [@ EXCEPT !.failed_login_attempts = 0,
                              !.locked_until = None,
                              !.refresh_token_hash = Some(hash_token(refresh_token))]]
           /\ Return(p, "Ok", refresh_token)
    /\ next_jti' = next_jti + 1
    /\ issued' = Superseded @@ Fresh(next_jti)
    /\ wrong' = [wrong EXCEPT ![local[p].user] = NoneWrong]
    /\ UNCHANGED <<Rest, calls, minute>>

LoginStep(p) == LoginFind(p) \/ LoginIncrement(p) \/ LoginUpdate(p)

\* ---- AuthService::refresh_token
CallRefreshToken(p, token) ==
    /\ pc[p] = "idle"
    /\ calls' = calls + 1
    /\ Goto(p, "refresh_find",
            [op |-> "refresh_token", user |-> token.sub, token |-> token,
             presented_again |-> /\ token.token_type = "refresh"
                                 /\ issued[token.jti].superseded])
    /\ UNCHANGED <<Rest, Accounts>>

\* validate the token, find the user, compare the stored hash
RefreshFind(p) ==
    /\ pc[p] = "refresh_find"
    /\ LET l == local[p] IN
       IF validate_refresh_token(l.token) # "Ok"
       THEN Return(p, "InvalidToken", 0)
       ELSE IF l.user \notin DOMAIN users
       THEN Return(p, "InvalidToken", 0)
       ELSE IF users[l.user].refresh_token_hash = Some(hash_token(l.token))
       THEN Goto(p, "refresh_store", l)
       ELSE Goto(p, "refresh_clear", l)
    /\ UNCHANGED <<Rest, Accounts, calls>>

\* reuse or an invalid token: the stored hash is cleared
RefreshClear(p) ==
    /\ pc[p] = "refresh_clear"
    /\ users' = [users EXCEPT ![local[p].user] =
                    [@ EXCEPT !.refresh_token_hash = None]]
    /\ Return(p, "InvalidToken", 0)
    /\ UNCHANGED <<Rest, calls, minute, next_jti, issued, wrong>>

\* rotation: a new pair is generated and the hash of the new refresh token
\* stored
RefreshStore(p) ==
    /\ pc[p] = "refresh_store"
    /\ LET l == local[p]
           new_refresh_token == RefreshToken(l.user, next_jti)
       IN  /\ users' =
                [users EXCEPT ![l.user] =
                    [@ EXCEPT !.refresh_token_hash =
                                  Some(hash_token(new_refresh_token))]]
           /\ issued' =
                [Superseded EXCEPT ![l.token.jti].times = @ + 1] @@ Fresh(next_jti)
           /\ Return(p, "Ok", new_refresh_token)
    /\ next_jti' = next_jti + 1
    /\ UNCHANGED <<Rest, calls, minute, wrong>>

RefreshTokenStep(p) == RefreshFind(p) \/ RefreshClear(p) \/ RefreshStore(p)

\* ---- AuthService::logout
CallLogout(p, u) ==
    /\ pc[p] = "idle"
    /\ calls' = calls + 1
    /\ Goto(p, "logout_find", [op |-> "logout", user |-> u])
    /\ UNCHANGED <<Rest, Accounts>>

LogoutFind(p) ==
    /\ pc[p] = "logout_find"
    /\ IF local[p].user \notin DOMAIN users
       THEN Return(p, "InvalidToken", 0)
       ELSE Goto(p, "logout_update", local[p])
    /\ UNCHANGED <<Rest, Accounts, calls>>

LogoutUpdate(p) ==
    /\ pc[p] = "logout_update"
    /\ users' = [users EXCEPT ![local[p].user] =
                    [@ EXCEPT !.refresh_token_hash = None]]
    /\ issued' = Superseded
    /\ Return(p, "Ok", 0)
    /\ UNCHANGED <<Rest, calls, minute, next_jti, wrong>>

LogoutStep(p) == LogoutFind(p) \/ LogoutUpdate(p)

\* POST /api/auth/logout: the handler clears the cookie of the client and
\* does not call AuthService::logout, so the store stays as it is
LogoutRequest(p) ==
    /\ pc[p] = "idle"
    /\ calls' = calls + 1
    /\ issued' = Superseded
    /\ last' = Returned("logout_request", "none", 0, "Ok", 0)
    /\ UNCHANGED <<Rest, pc, local, users, minute, next_jti, wrong>>

\* five minutes pass
TickMinutes ==
    /\ minute + TICK_MINUTES <= MaxMinute
    /\ minute' = minute + TICK_MINUTES
    /\ UNCHANGED <<Rest, pc, local, last, calls, users, next_jti, issued, wrong>>

\* ---- the custom validator of RegisterRequest.password
CallValidatePasswordStrength(p, password) ==
    /\ pc[p] = "idle"
    /\ calls' = calls + 1
    /\ Goto(p, "validate_password",
            [op |-> "validate_password_strength", user |-> "none",
             password |-> password])
    /\ UNCHANGED <<Rest, Accounts>>

ValidatePasswordStrength(p) ==
    /\ pc[p] = "validate_password"
    /\ LET result == validate_password_strength(local[p].password)
       IN  Return(p, IF result = "Ok" THEN "Ok" ELSE "ValidationError", result)
    /\ UNCHANGED <<Rest, Accounts, calls>>

\* ---- the selection loop of generate_week_plan, candidate by candidate
SLOTS_PER_DAY == 2

\* the iterator goes back to the head of the list
Rewound(cursor) == 1

\* score_iter between two finds: where the last find left it
KeptBetweenFinds(cursor) == cursor

\* the closure of the find for the slot: unused, fitting and, for dinner, of
\* a cuisine other than the one recorded for the day
Matches(candidate, used, meal_type, used_today) ==
    /\ candidate.recipe_id \notin used
    /\ fits_meal_type(candidate.category, meal_type)
    /\ (meal_type = "dinner" => candidate.cuisine # used_today)

\* the meal type of the slot-th find of the loop
MealTypeOf(slot) == IF slot % SLOTS_PER_DAY = 0 THEN "lunch" ELSE "dinner"

\* scored is sorted and score_iter = scored.iter()
CallSelection(p, u, household_size) ==
    /\ pc[p] = "idle"
    /\ calls' = calls + 1
    /\ LET scored == SortedScores(u, household_size) IN
       Goto(p, "select_next",
            [op |-> "selection", user |-> u, scored |-> scored, cursor |-> 1,
             slot |-> 0, selected |-> <<>>, used_today |-> None,
             examined |-> [i \in 1..Len(scored) |-> 0]])
    /\ UNCHANGED <<Rest, Accounts>>

\* find calls next() and tests the candidate: a match fills the slot, and a
\* lunch records its cuisine; otherwise the find goes on
SelectionExamine(p) ==
    /\ pc[p] = "select_next"
    /\ LET l == local[p] IN
       /\ l.slot < SLOTS_PER_DAY * DAYS_PER_WEEK
       /\ l.cursor <= Len(l.scored)
       /\ LET candidate == l.scored[l.cursor]
              meal_type == MealTypeOf(l.slot)
              used == {x[1] : x \in Range(l.selected)}
              seen == [l EXCEPT !.examined[l.cursor] = @ + 1,
                                !.cursor = @ + 1]
          IN  IF Matches(candidate, used, meal_type, l.used_today)
              THEN Goto(p, "select_next",
                        [seen EXCEPT
                           !.selected = Append(@, Slot(candidate.recipe_id,
                                                       l.slot \div SLOTS_PER_DAY,
                                                       meal_type)),
                           !.slot = @ + 1,
                           !.cursor = KeptBetweenFinds(@),
                           !.used_today = IF meal_type = "lunch"
                                          THEN candidate.cuisine ELSE None])
              ELSE Goto(p, "select_next", seen)
    /\ UNCHANGED <<Rest, Accounts, calls>>

\* next() returns None: the find returns None and the slot stays empty
SelectionExhausted(p) ==
    /\ pc[p] = "select_next"
    /\ LET l == local[p] IN
       /\ l.slot < SLOTS_PER_DAY * DAYS_PER_WEEK
       /\ l.cursor > Len(l.scored)
       /\ Goto(p, "select_next",
               [l EXCEPT !.slot = @ + 1,
                         !.cursor = KeptBetweenFinds(@),
                         !.used_today = IF MealTypeOf(l.slot) = "lunch"
                                        THEN None ELSE @])
    /\ UNCHANGED <<Rest, Accounts, calls>>

\* the loop over the days has ended
SelectionDone(p) ==
    /\ pc[p] = "select_next"
    /\ local[p].slot = SLOTS_PER_DAY * DAYS_PER_WEEK
    /\ Return(p, "Ok", local[p].selected)
    /\ UNCHANGED <<Rest, Accounts, calls>>

SelectionStep(p) == SelectionExamine(p) \/ SelectionExhausted(p) \/ SelectionDone(p)

\* ------------------------------------------------------------ the systems
Item(id, u, ingredient_id, quantity, expiry_date) ==
    [id |-> id, user_id |-> u, ingredient_id |-> ingredient_id,
     quantity |-> quantity, expiry_date |-> expiry_date]

\* Inventories earlier calls of InventoryService::add have left: none; tomato
\* in plenty and a little pasta that expires; two rows of tomato and rice
Inventories ==
    {{},
     {Item(1, "u1", 1, 500, None), Item(2, "u1", 2, 50, Some(3))},
     {Item(1, "u1", 1, 30, Some(2)), Item(2, "u1", 1, 500, None),
      Item(3, "u1", 3, 1000, Some(30))}}

WeekStarts == {0, DAYS_PER_WEEK}
HouseholdSizes == {1, 4}

PlanInit ==
    /\ \E inv \in Inventories : StoreWith(inv, {})
    /\ catalog = Fixed("plan")

\* the calls a client can start on task p
PlanCall(p) ==
    \/ \E u \in Users, hh \in HouseholdSizes, ws \in WeekStarts :
          CallGenerateWeekPlan(p, u, hh, ws)
    \/ \E u \in Users : CallGetCurrentPlan(p, u)
    \/ \E u \in Users : CallGetShoppingList(p, u)
    \/ \E u \in Users, plan_id \in 1..next_id.plan, slot_id \in 1..next_id.slot :
          CallMarkSlotComplete(p, u, plan_id, slot_id)

\* the statements of the calls under way on task p
PlanStep(p) ==
    \/ GenerateWeekPlanStep(p)
    \/ GetCurrentPlanStep(p)
    \/ GetShoppingListStep(p)
    \/ MarkSlotCompleteStep(p)

\* One client, so that a call starts when the one before has returned, in
\* three systems.  Planning again and again, for two users and two weeks,
\* between meals cooked:
ReplaceNext ==
    \/ /\ calls < MaxOps
       /\ \E u \in Users, hh \in HouseholdSizes, ws \in WeekStarts :
             CallGenerateWeekPlan(1, u, hh, ws)
    \/ /\ calls < MaxOps
       /\ pc[1] = "idle"
       /\ \E rid \in {1, 3} : MarkCooked("u1", rid)
    \/ GenerateWeekPlanStep(1)

ReplaceSpec == PlanInit /\ [][ReplaceNext]_vars

\* cooking and planning as the weeks pass:
CookNext ==
    \/ /\ calls < MaxOps
       /\ \E hh \in HouseholdSizes : CallGenerateWeekPlan(1, "u1", hh, 0)
    \/ /\ calls < MaxOps
       /\ pc[1] = "idle"
       /\ \E rid \in {1, 3, MissingRecipe} : MarkCooked("u1", rid)
    \/ pc[1] = "idle" /\ Tick
    \/ GenerateWeekPlanStep(1)

CookSpec == PlanInit /\ [][CookNext]_vars

\* planning, completing slots and asking for the shopping list, over the
\* catalog whose plans have two slots:
ShopInit ==
    /\ \E inv \in Inventories : StoreWith(inv, {})
    /\ catalog = Fixed("score")

ShopNext ==
    \/ /\ calls < MaxShop
       /\ \E hh \in HouseholdSizes : CallGenerateWeekPlan(1, "u1", hh, 0)
    \/ calls < MaxShop /\ CallGetShoppingList(1, "u1")
    \/ /\ calls < MaxShop
       /\ \E plan_id \in {m.id : m \in meal_plans} \cup {next_id.plan},
             slot_id \in {s.id : s \in meal_plan_slots} \cup {next_id.slot} :
             CallMarkSlotComplete(1, "u1", plan_id, slot_id)
    \/ GenerateWeekPlanStep(1)
    \/ GetShoppingListStep(1)
    \/ MarkSlotCompleteStep(1)

ShopSpec == ShopInit /\ [][ShopNext]_vars

\* one client, and a storage that can fail
FailNext ==
    \/ calls < MaxOps /\ PlanCall(1)
    \/ PlanStep(1)
    \/ Fail(1)

FailSpec == PlanInit /\ [][FailNext]_vars

\* two clients at once
ConcNext ==
    \E p \in Procs :
        \/ /\ calls < MaxOps
           /\ \/ \E u \in PrefUsers, hh \in HouseholdSizes, ws \in {0} :
                    CallGenerateWeekPlan(p, u, hh, ws)
              \/ \E u \in PrefUsers : CallGetCurrentPlan(p, u)
              \/ \E u \in PrefUsers : CallGetShoppingList(p, u)
        \/ GenerateWeekPlanStep(p)
        \/ GetCurrentPlanStep(p)
        \/ GetShoppingListStep(p)

ConcSpec == PlanInit /\ [][ConcNext]_vars

\* two concurrent record_interaction calls of one user
RaceNext ==
    \E p \in Procs :
        \/ /\ calls < MaxRace
           /\ \E u \in PrefUsers, rid \in DOMAIN recipes \cup {MissingRecipe},
                 signal \in PreferenceSignals : CallRecordInteraction(p, u, rid, signal)
        \/ RecordInteractionStep(p)

RaceSpec == PrefInit /\ [][RaceNext]_vars

\* plan generation alone, over drawn catalogs, inventories, histories and
\* favourites
DrawnSizes == {0, 1, 2, 3, 5, 14, 16, 20}
DrawnPatterns == 0..3

SelectInit ==
    /\ \E inv \in Inventories, favs \in SUBSET {3} :
          StoreWith(inv, {<<"u1", r>> : r \in favs})
    /\ \E n \in DrawnSizes, c \in DrawnPatterns, k \in DrawnPatterns :
          catalog = [kind |-> "drawn", n |-> n, cuisines |-> c, categories |-> k]

SelectNext ==
    \/ /\ calls < MaxPlans
       /\ \E hh \in {1, 4} : CallGenerateWeekPlan(1, "u1", hh, 0)
    \/ /\ calls < MaxPlans
       /\ pc[1] = "idle"
       /\ \E rid \in {1, 2} : MarkCooked("u1", rid)
    \/ GenerateWeekPlanStep(1)

SelectSpec == SelectInit /\ [][SelectNext]_vars

\* plan generation over every kind of input: the fixed catalogs, whose
\* recipe 3 has no ingredients and no nutrition in one and whose recipe 2
\* has an ingredient without weight, and the small drawn ones, among them
\* the empty catalog and the one whose only recipe is a dessert
InputSizes == 0..3

InputInit ==
    /\ \E inv \in Inventories, favs \in SUBSET {3} :
          StoreWith(inv, {<<"u1", r>> : r \in favs})
    /\ \/ catalog \in {Fixed("score"), Fixed("plan")}
       \/ \E n \in InputSizes, c \in DrawnPatterns, k \in DrawnPatterns :
             catalog = [kind |-> "drawn", n |-> n, cuisines |-> c, categories |-> k]

InputSpec == InputInit /\ [][SelectNext]_vars

\* logins of one account from two clients at once, with either password and
\* for an identity without account, as the minutes pass
LockNext ==
    \/ \E p \in Procs :
          /\ calls < MaxLogins
          /\ \/ \E password \in Passwords : CallLogin(p, "u1", password)
             \/ CallLogin(p, Nobody, "registered")
    \/ \E p \in Procs : LoginStep(p)
    \/ (\A p \in Procs : pc[p] = "idle") /\ TickMinutes

LockSpec == PrefInit /\ [][LockNext]_vars

\* the tokens a client can present: every token issued so far
Presentable ==
    {RefreshToken("u1", j) : j \in DOMAIN issued}
    \cup {AccessToken("u1", j) : j \in DOMAIN issued}

\* logins with either password, refreshes and logouts of one account from
\* two clients at once
TokenNext ==
    \/ \E p \in Procs :
          /\ calls < MaxTokenCalls
          /\ \/ \E password \in Passwords : CallLogin(p, "u1", password)
             \/ \E token \in Presentable : CallRefreshToken(p, token)
             \/ CallLogout(p, "u1")
             \/ LogoutRequest(p)
    \/ \E p \in Procs : LoginStep(p) \/ RefreshTokenStep(p) \/ LogoutStep(p)

TokenSpec == PrefInit /\ [][TokenNext]_vars

\* the validator applied to every password of up to MaxPasswordLen characters
PasswordNext ==
    \/ /\ calls < MaxValidations
       /\ \E password \in StringsUpTo(MaxPasswordLen) :
             CallValidatePasswordStrength(1, password)
    \/ ValidatePasswordStrength(1)

PasswordSpec == PrefInit /\ [][PasswordNext]_vars

\* record_interaction calls of one user, one after the other, each in its
\* steps, for the recipes of the catalog and for a recipe that does not exist
TurnNext ==
    \/ /\ calls < MaxTurns
       /\ \E rid \in DOMAIN recipes \cup {MissingRecipe}, signal \in PreferenceSignals :
             CallRecordInteraction(1, "u1", rid, signal)
    \/ RecordInteractionStep(1)

TurnSpec == PrefInit /\ [][TurnNext]_vars

\* the same, for the recipes of the catalog only
CountNext ==
    \/ /\ calls < MaxTurns
       /\ \E rid \in DOMAIN recipes, signal \in PreferenceSignals :
             CallRecordInteraction(1, "u1", rid, signal)
    \/ RecordInteractionStep(1)

CountSpec == PrefInit /\ [][CountNext]_vars

\* the selection loop alone, candidate by candidate, over the drawn catalogs
LoopNext ==
    \/ /\ calls < MaxLoops
       /\ \E hh \in {1, 4} : CallSelection(1, "u1", hh)
    \/ SelectionStep(1)

LoopSpec == SelectInit /\ [][LoopNext]_vars

\* the loop is not suspended for ever: it has no await
FairLoopSpec == LoopSpec /\ WF_vars(SelectionStep(1))

\* one client and two users: plans generated, read and their slots completed,
\* with any plan id and any slot id
OwnerNext ==
    \/ calls < MaxOps /\ PlanCall(1)
    \/ PlanStep(1)

OwnerSpec == PlanInit /\ [][OwnerNext]_vars

\* ------------------------------------------------------------ properties
\* C1: every stored weight lies in [-1.0, 1.0] and is a multiple of 0.001
WeightsClampedAndRounded ==
    \A u \in Users : user_preferences[u] # NoRow =>
        \A field \in {"cuisine_weights", "ingredient_weights", "difficulty_weights",
                      "macro_bias"} :
            \A k \in DOMAIN user_preferences[u][field] :
                LET w == user_preferences[u][field][k] IN
                /\ -One <= w /\ w <= One
                /\ w % (One \div Milli) = 0

\* a state in which clamping and rounding have both acted: the protein bias
\* fed 400.0 was clamped to 1.0 and a cuisine weight reached 0.19
WeightsClampedAndRoundedWitness ==
    /\ user_preferences["u1"] # NoRow
    /\ user_preferences["u1"].macro_bias.protein = One
    /\ "italian" \in DOMAIN user_preferences["u1"].cuisine_weights
    /\ user_preferences["u1"].cuisine_weights["italian"] = 19 * Milli

\* no weight recorded: every weight of the row is absent or still 0
NoRecordedWeights(pref) ==
    \A field \in {"cuisine_weights", "ingredient_weights", "difficulty_weights"} :
        \A k \in DOMAIN pref[field] : pref[field][k] = 0

\* C8: score_recipe_for_user returns exactly 0.5 when the user has no
\* preference record yet, or the record holds no recorded weights, or no
\* score component matched the recipe
ScoreNeutralWithoutData ==
    [][(/\ last'.op = "score_recipe_for_user"
        /\ last'.status = "Ok"
        /\ \/ user_preferences[last'.user] = NoRow
           \/ NoRecordedWeights(GetOrCreateRow(user_preferences, last'.user))
           \/ ScoreComponents(GetOrCreateRow(user_preferences, last'.user),
                              recipes[last'.recipe]) = {})
       => last'.value = One \div 2]_vars

\* C9: score_recipe_for_user is read-only: a call leaves the persisted
\* state, the set of users with a preference row included, unchanged
ScoreIsReadOnly ==
    [][last'.op = "score_recipe_for_user" =>
        UNCHANGED <<user_preferences, cooking_history, user_favorites,
                    inventory_items, meal_plans, meal_plan_slots>>]_vars

\* the labels of generate_week_plan, and those of its persistence step
GenLabels == {"gen_load", "gen_find", "gen_delete_slots", "gen_delete_plan",
              "gen_insert_plan", "gen_insert_slot"}
PersistLabels == {"gen_delete_slots", "gen_delete_plan", "gen_insert_plan",
                  "gen_insert_slot"}

\* the call of task p returns with the step
Returns(p, labels, status) ==
    pc[p] \in labels /\ pc'[p] = "idle" /\ last'.status = status

\* C2: no update of concurrent record_interaction calls is lost: every call
\* that reports success has applied its update to the row as it is stored
\* when it writes, so that interaction_count grows by one with each of them
NoLostUpdate ==
    [][\A p \in Procs : Returns(p, {"rec_update"}, "Ok") =>
          LET l == local[p]
              stored == user_preferences[l.user]
          IN  /\ user_preferences'[l.user].interaction_count
                    = stored.interaction_count + 1
              /\ \E ups \in SUBSET TiePairs(stored, recipes[l.recipe],
                                            SignalValue(l.signal)) :
                    user_preferences'[l.user]
                       = RecordInteractionRow(stored, recipes[l.recipe], l.signal, ups)
      ]_vars

\* the <<recipe_id, day_of_week, meal_type>> stored for plan id
StoredKeys(slots, id) == {SlotKey(s) : s \in SlotsOf(slots, id)}

\* C3: get_current_plan never observes a partially replaced plan: it does
\* not miss a plan that a generate_week_plan call is replacing, and a plan it
\* returns has exactly the slots its generate_week_plan call selected, unless
\* it is the first plan of its week and still being stored
ReaderSeesWholePlan ==
    [][\A p \in Procs : Returns(p, {"cur_find", "cur_slots"}, "Ok") =>
          IF last'.value = None
          THEN ~\E q \in Procs :
                    /\ pc[q] = "gen_insert_plan"
                    /\ IsSome(local[q].existing)
                    /\ local[q].user = local[p].user
                    /\ local[q].week_start = local[p].week_start
          ELSE LET seen == Get(last'.value) IN
               \/ StoredKeys(seen.slots, seen.id) = written[seen.id]
               \/ \E q \in Procs :
                     /\ pc[q] = "gen_insert_slot"
                     /\ local[q].saved = seen.id
                     /\ ~IsSome(local[q].existing)
      ]_vars

\* C4: when a statement of the persistence step fails, the call returns the
\* error, the plan stored before for (user, week_start) is still there with
\* all its slots, and no stored plan has only part of its slots
FailureKeepsOldPlan ==
    [][\A p \in Procs : Returns(p, PersistLabels, "DbErr") =>
          /\ IsSome(local[p].existing) =>
                \E m \in meal_plans' : m.id = Get(local[p].existing)
          /\ \A m \in meal_plans' :
                StoredKeys(meal_plan_slots', m.id) = written'[m.id]
      ]_vars

\* the plans of the other users and weeks, with their slots
OtherPlans(plans, slots, u, week_start) ==
    LET others == {m \in plans : ~(m.user_id = u /\ m.week_start = week_start)}
    IN  <<others, {s \in slots : \E m \in others : s.meal_plan_id = m.id}>>

\* C5: a successful generate_week_plan leaves exactly one plan for its
\* (user, week_start), with exactly the slots it selected; no slot of an
\* earlier plan remains, and no step of the call changes a plan of another
\* user or week
ReplacedWholesale ==
    [][\A p \in Procs :
          /\ pc[p] \in GenLabels =>
                OtherPlans(meal_plans', meal_plan_slots', local[p].user,
                           local[p].week_start)
                   = OtherPlans(meal_plans, meal_plan_slots, local[p].user,
                                local[p].week_start)
          /\ Returns(p, GenLabels, "Ok") =>
                LET l == local[p]
                    mine == {m \in meal_plans' :
                                m.user_id = l.user /\ m.week_start = l.week_start}
                IN  /\ Cardinality(mine) = 1
                    /\ \A m \in mine :
                          /\ m.id = last'.value
                          /\ StoredKeys(meal_plan_slots', m.id) = Range(l.selected)
                          /\ Cardinality(SlotsOf(meal_plan_slots', m.id))
                                = Len(l.selected)
                    /\ \A s \in meal_plan_slots' :
                          \E m \in meal_plans' : s.meal_plan_id = m.id
      ]_vars

\* three calls have stored plans, the last of them in place of an earlier
\* plan of the same user and week, and a plan of another user or week stands
ReplacedWholesaleWitness ==
    /\ last.op = "generate_week_plan" /\ last.status = "Ok"
    /\ Cardinality(meal_plans) = 2
    /\ \E m \in meal_plans :
          /\ m.id = last.value /\ m.id > Cardinality(meal_plans)
          /\ StoredKeys(meal_plan_slots, m.id) # {}
    /\ \E m \in meal_plans : m.id < last.value /\ StoredKeys(meal_plan_slots, m.id) # {}

\* at most one slot per (day, meal type), days 0..6, lunch and dinner only
WellFormedSlots(keys) ==
    /\ \A k \in keys :
          /\ k[2] \in 0..(DAYS_PER_WEEK - 1)
          /\ k[3] \in {"lunch", "dinner"}
          /\ \A j \in keys : (j[2] = k[2] /\ j[3] = k[3]) => j = k
    /\ Cardinality(keys) <= 2 * DAYS_PER_WEEK

\* C6: every plan generate_week_plan selects, and every plan it stores, has
\* at most one slot per (day_of_week, meal_type), days in 0..6, meal types
\* lunch and dinner, and so at most 14 slots
OneSlotPerDayAndMeal ==
    /\ \A p \in Procs : pc[p] \in GenLabels =>
          /\ WellFormedSlots(Range(local[p].selected))
          /\ Cardinality(Range(local[p].selected)) = Len(local[p].selected)
    /\ \A m \in meal_plans :
          /\ WellFormedSlots(StoredKeys(meal_plan_slots, m.id))
          /\ Cardinality(SlotsOf(meal_plan_slots, m.id)) <= 2 * DAYS_PER_WEEK

\* a plan with all 14 slots has been stored
OneSlotPerDayAndMealWitness ==
    /\ last.op = "generate_week_plan" /\ last.status = "Ok"
    /\ \E m \in meal_plans :
          /\ m.id = last.value
          /\ Cardinality(SlotsOf(meal_plan_slots, m.id)) = 2 * DAYS_PER_WEEK

ShoppingListOnlyToBuy ==
    [][\A p \in Procs : Returns(p, {"shop_find", "shop_inventory"}, "Ok") =>
          LET plans == {m \in meal_plans : /\ m.user_id = local[p].user
                                           /\ m.week_start = local[p].week_start}
          IN  /\ \A i \in 1..Len(last'.value) : last'.value[i].to_buy_grams > 0
              /\ (\A m \in plans : \A s \in SlotsOf(meal_plan_slots, m.id) :
                      s.is_completed)
                    => last'.value = <<>>
      ]_vars

\* the week's plan needs pasta the user has none or too little of, and the
\* list is empty because the plan's slots have all been completed
ShoppingListOnlyToBuyWitness ==
    /\ last.op = "get_shopping_list" /\ last.status = "Ok"
    /\ pc[1] = "idle"
    /\ last.value = <<>>
    /\ \E m \in meal_plans :
          /\ m.user_id = last.user /\ m.week_start = CurrentWeekStart
          /\ Cardinality(SlotsOf(meal_plan_slots, m.id)) > 1
          /\ \A s \in SlotsOf(meal_plan_slots, m.id) : s.is_completed
          /\ \E s \in SlotsOf(meal_plan_slots, m.id) :
                \E ri \in recipes[s.recipe_id].ingredients : ri.ingredient_id = 2

\* a list with an entry for an ingredient the user has too little of and none
\* for the tomato the plan needs and the user has enough of
ShoppingListOmitsCovered ==
    /\ last.op = "get_shopping_list" /\ last.status = "Ok"
    /\ pc[1] = "idle"
    /\ \E i \in 1..Len(last.value) : last.value[i].in_inventory
    /\ \A i \in 1..Len(last.value) : last.value[i].name # "tomato"
    /\ \E m \in meal_plans : \E s \in SlotsOf(meal_plan_slots, m.id) :
          /\ m.user_id = last.user /\ m.week_start = CurrentWeekStart
          /\ ~s.is_completed
          /\ \E ri \in recipes[s.recipe_id].ingredients : ri.ingredient_id = 1

\* the grams of ingredient k user u has on hand: the total over the user's
\* inventory rows of k, 0 when there is none
OnHand(u, k) ==
    LET rows == {i \in InventoryOf(u) : i.ingredient_id = k}
    IN  SumOver([i \in rows |-> i.quantity], rows)

\* what the incomplete slots of the plans of (u, week_start) require
NeededNow(u, week_start) ==
    Needed({s.recipe_id :
              s \in {t \in meal_plan_slots :
                       /\ ~t.is_completed
                       /\ \E m \in ExistingPlans(u, week_start) :
                             t.meal_plan_id = m.id}})

\* C11: for every ingredient the incomplete slots require, the list
\* get_shopping_list returns has an entry if and only if needed > have, and
\* then to_buy_grams = needed - have, have being the total quantity of the
\* ingredient in the user's inventory (0 if absent)
ShoppingListNeededMinusOnHand ==
    [][\A p \in Procs : Returns(p, {"shop_inventory"}, "Ok") =>
          LET u == local[p].user
              needed == NeededNow(u, local[p].week_start)
              list == last'.value
          IN  \A k \in DOMAIN needed :
                 LET have == OnHand(u, k)
                     entries == {i \in 1..Len(list) : list[i].ingredient_id = k}
                 IN  /\ (entries # {}) <=> (needed[k] > have)
                     /\ \A i \in entries :
                           list[i].to_buy_grams = needed[k] - have
      ]_vars

\* the weight the row holds for a cuisine, in thousandths; 0.0 without a row
\* or without the key
CuisineMilli(row, cuisine) ==
    IF row = NoRow THEN 0
    ELSE OldWeight(row.cuisine_weights, cuisine) \div (One \div Milli)

\* C12: rating the same recipe 5 stars repeatedly from a cuisine weight of 0.0
\* takes the weight from w to w + 0.1 * (1 - w) rounded to 3 decimals: it
\* never decreases, never exceeds 1.0 and is 0.271 after three updates
FiveStarsRecurrence ==
    [][\A u \in Users : user_preferences'[u] # user_preferences[u] =>
          LET w == CuisineMilli(user_preferences[u], "italian")
              new == CuisineMilli(user_preferences'[u], "italian")
              \* w + 0.1 * (1 - w), in units of 1e-4
              exact == 9 * w + Milli
          IN  /\ OldWeight(user_preferences'[u].cuisine_weights, "italian")
                    % (One \div Milli) = 0
              /\ Abs(10 * new - exact) <= 5
              /\ new >= w
              /\ new <= Milli
              /\ user_preferences'[u].interaction_count = 1 => new = 100
              /\ user_preferences'[u].interaction_count = 2 => new = 190
              /\ user_preferences'[u].interaction_count = 3 => new = 271
      ]_vars

\* three five-star ratings of recipe 1 have been recorded and the weight of
\* its cuisine is 0.271
FiveStarsRecurrenceWitness ==
    /\ user_preferences["u1"] # NoRow
    /\ user_preferences["u1"].interaction_count = 3
    /\ CuisineMilli(user_preferences["u1"], "italian") = 271

\* the <<old, new>> weights of the keys a zero-signal interaction with recipe
\* 1 updates, when the step is one
ZeroSignalUpdates ==
    IF calls >= MaxSeed /\ calls' = calls + 1 /\ user_preferences["u1"] # NoRow
    THEN LET old == user_preferences["u1"]
             new == user_preferences'["u1"]
             pairs(field, keys) ==
                 {<<OldWeight(old[field], k), OldWeight(new[field], k)>> :
                     k \in keys}
         IN  pairs("cuisine_weights", {Get(recipes[1].cuisine)})
             \cup pairs("difficulty_weights", {Get(recipes[1].difficulty)})
             \cup pairs("ingredient_weights", IngredientNames(recipes[1]))
             \cup pairs("macro_bias", DOMAIN MacroSignals(recipes[1], 0))
    ELSE {}

\* the zero-signal update leaves w where it is, however a half is rounded
StuckAt(w) == \A up \in BOOLEAN : NewWeight(w, 0, up) = w

BreakfastOrDessert(rid) ==
    recipes[rid].category \in {Some("breakfast"), Some("dessert")}

\* the catalog of one breakfast-only and two general recipes, with an empty
\* inventory and no history
BreakfastScenario ==
    /\ catalog = [kind |-> "drawn", n |-> 3, cuisines |-> catalog.cuisines,
                  categories |-> 1]
    /\ inventory_items = {}
    /\ cooking_history = {}

\* C14: no plan generate_week_plan selects or stores has a breakfast or a
\* dessert recipe in a lunch or dinner slot; fits_meal_type lets every other
\* recipe, with or without category, into lunch and into dinner; in the
\* scenario of one breakfast and two general recipes at most 2 slots are
\* filled
NoBreakfastOrDessertPlanned ==
    /\ \A p \in Procs : pc[p] \in GenLabels =>
          /\ \A x \in Range(local[p].selected) :
                x[3] \in {"lunch", "dinner"} /\ ~BreakfastOrDessert(x[1])
          /\ BreakfastScenario => Len(local[p].selected) <= 2
    /\ \A s \in meal_plan_slots :
          s.meal_type \in {"lunch", "dinner"} /\ ~BreakfastOrDessert(s.recipe_id)
    /\ \A m \in meal_plans :
          BreakfastScenario => Cardinality(SlotsOf(meal_plan_slots, m.id)) <= 2
    /\ \A rid \in DOMAIN recipes : ~BreakfastOrDessert(rid) =>
          /\ fits_meal_type(recipes[rid].category, "lunch")
          /\ fits_meal_type(recipes[rid].category, "dinner")

\* in the scenario a plan of two slots has been stored and returned, the
\* breakfast recipe left out
NoBreakfastOrDessertPlannedWitness ==
    /\ BreakfastScenario
    /\ \E rid \in DOMAIN recipes : recipes[rid].category = Some("breakfast")
    /\ last.op = "generate_week_plan" /\ last.status = "Ok"
    /\ pc[1] = "idle"
    /\ Cardinality(SlotsOf(meal_plan_slots, last.value)) = 2

\* C15: with the store working, generate_week_plan returns Ok with a plan
\* stored for (user, week_start) that holds the selected slots, whatever the
\* catalog, the inventory and the history, and however few slots are filled
GenerateFailsOnlyOnStoreFailure ==
    [][\A p \in Procs : (pc[p] \in GenLabels /\ pc'[p] = "idle") =>
          /\ last'.status = "Ok"
          /\ \E m \in meal_plans' :
                /\ m.id = last'.value
                /\ m.user_id = local[p].user
                /\ m.week_start = local[p].week_start
                /\ StoredKeys(meal_plan_slots', m.id) = Range(local[p].selected)
                /\ Cardinality(SlotsOf(meal_plan_slots', m.id))
                      = Len(local[p].selected)
      ]_vars

\* a plan without any slot has been stored and returned although the
\* catalog holds recipes: all of them cooked recently or fitting no slot
GenerateFailsOnlyOnStoreFailureWitness ==
    /\ last.op = "generate_week_plan" /\ last.status = "Ok"
    /\ pc[1] = "idle"
    /\ DOMAIN recipes # {}
    /\ \E m \in meal_plans : m.id = last.value
    /\ SlotsOf(meal_plan_slots, last.value) = {}

\* C16: once MAX_FAILED_ATTEMPTS password attempts have failed with no login
\* succeeding in between, a login attempt made and answered before
\* LOCKOUT_DURATION_MINUTES have passed is rejected with AuthenticationFailed,
\* whatever its password, and issues no token
LockedAfterFailedAttempts ==
    [][\A p \in Procs :
          (/\ pc[p] \in {"login_find", "login_increment", "login_update"}
           /\ pc'[p] = "idle"
           /\ local[p].after_lock
           /\ local[p].user \in DOMAIN wrong
           /\ wrong[local[p].user].n >= MAX_FAILED_ATTEMPTS
           /\ minute < wrong[local[p].user].at + LOCKOUT_DURATION_MINUTES)
          => /\ last'.status = "AuthenticationFailed"
             /\ next_jti' = next_jti
             /\ users'[local[p].user].refresh_token_hash
                   = users[local[p].user].refresh_token_hash
      ]_vars

RefreshLabels == {"refresh_find", "refresh_clear", "refresh_store"}

\* C17: refresh_token accepts a refresh token at most once; a token presented
\* after it was used for a refresh, or after a logout or a newer login, fails
\* with InvalidToken and leaves the user's stored hash cleared
RefreshTokenAcceptedOnce ==
    [][\A p \in Procs : (pc[p] \in RefreshLabels /\ pc'[p] = "idle") =>
          LET l == local[p] IN
          /\ last'.status = "Ok" => issued[l.token.jti].times = 0
          /\ l.presented_again =>
                /\ last'.status = "InvalidToken"
                /\ users'[l.user].refresh_token_hash = None
      ]_vars

\* the password has a character of the set
Contains(password, set) == \E i \in 1..Len(password) : password[i] \in set

\* C18: validate_password_strength accepts a password if and only if it has
\* an uppercase letter, a lowercase letter, a digit and a character that is
\* not alphanumeric
PasswordNeedsFourClasses ==
    [][(pc[1] = "validate_password" /\ pc'[1] = "idle") =>
          LET password == local[1].password IN
          (last'.status = "Ok") <=>
              /\ Contains(password, {"A"})
              /\ Contains(password, {"a"})
              /\ Contains(password, {"7"})
              /\ Contains(password, {"!", " "})
      ]_vars

\* a password with all four classes was accepted
PasswordNeedsFourClassesWitness ==
    /\ last.op = "validate_password_strength"
    /\ last.status = "Ok"

\* a password with three of the classes, and an alphanumeric character that
\* is in none, was rejected for its missing digit
PasswordRejectedWitness ==
    /\ last.op = "validate_password_strength"
    /\ last.status = "ValidationError"
    /\ last.value = "digit"

\* the place of a slot in the order day 0 lunch, day 0 dinner, day 1 lunch, ..
SlotOrder(x) == 2 * x[2] + (IF x[3] = "lunch" THEN 0 ELSE 1)

\* the position of recipe rid in the sorted list
PositionOf(scored, rid) == CHOOSE k \in 1..Len(scored) : scored[k].recipe_id = rid

\* the cuisine of the lunch selected for the day, None without one
LunchCuisine(selected, day) ==
    LET lunches == {x \in Range(selected) : x[2] = day /\ x[3] = "lunch"}
    IN  IF lunches = {} THEN None
        ELSE recipes[(CHOOSE x \in lunches : TRUE)[1]].cuisine

\* the candidate satisfies the conditions of slot x of the selection
Qualifies(candidate, selected, x) ==
    /\ ~BreakfastOrDessert(candidate.recipe_id)
    /\ x[3] = "dinner" => candidate.cuisine # LunchCuisine(selected, x[2])

\* the selection, its slots taken in order, walks the sorted list forward
ForwardOnly(scored, selected) ==
    LET pos(i) == PositionOf(scored, selected[i][1])
        cursor(i) == IF i = 1 THEN 1 ELSE pos(i - 1) + 1
    IN  /\ \A i \in 1..Len(selected) :
              /\ \E k \in 1..Len(scored) : scored[k].recipe_id = selected[i][1]
              /\ i > 1 => /\ SlotOrder(selected[i - 1]) < SlotOrder(selected[i])
                          /\ pos(i - 1) < pos(i)
              /\ cursor(i) <= pos(i)
              /\ Qualifies(scored[pos(i)], selected, selected[i])
              /\ \A k \in cursor(i)..(pos(i) - 1) :
                    /\ ~Qualifies(scored[k], selected, selected[i])
                    /\ \A j \in i..Len(selected) : selected[j][1] # scored[k].recipe_id
        \* the candidates passed over for a slot left unfilled are all that
        \* remained: no later slot is filled
        /\ \A i \in 1..Len(selected) : SlotOrder(selected[i]) = i - 1

\* C19: the selection goes through the sorted candidates with one cursor that
\* only moves forward: the filled slots, in slot order, hold recipes at
\* strictly increasing positions, each the first candidate from the cursor on
\* that satisfies the slot's conditions, and a candidate passed over for a
\* slot is in no later slot
SelectionCursorForwardOnly ==
    [][(pc[1] = "gen_load" /\ pc'[1] = "gen_find") =>
          ForwardOnly(SortedScores(local[1].user, local[1].household_size),
                      local'[1].selected)
      ]_vars

\* a selection of at least three slots that passed over a candidate which
\* would have fitted a later slot
SelectionCursorForwardOnlyWitness ==
    /\ pc[1] = "gen_find"
    /\ LET selected == local[1].selected
           scored == SortedScores(local[1].user, local[1].household_size)
       IN  /\ Len(selected) >= 3
           /\ \E i \in 1..Len(selected), k \in 1..Len(scored) :
                 /\ k < PositionOf(scored, selected[i][1])
                 /\ scored[k].recipe_id \notin {x[1] : x \in Range(selected)}
                 /\ ~BreakfastOrDessert(scored[k].recipe_id)

\* in the set of slot keys, a day's dinner has a cuisine other than its lunch
DinnerDiffersFromLunch(keys) ==
    \A x, y \in keys :
        (x[2] = y[2] /\ x[3] = "lunch" /\ y[3] = "dinner")
            => recipes[x[1]].cuisine # recipes[y[1]].cuisine

\* the days of the selection with a lunch and no dinner
LunchOnlyDays(selected) ==
    {x[2] : x \in {y \in Range(selected) : y[3] = "lunch"}}
        \ {x[2] : x \in {y \in Range(selected) : y[3] = "dinner"}}

\* C20: on every day of a plan with a lunch and a dinner the two recipes have
\* different cuisines, in the selection and in the stored plan; a day whose
\* lunch is followed by no candidate of another cuisine has no dinner, and a
\* day left without dinner has none although candidates remained only when
\* every one of them has the lunch's cuisine or fits no dinner
DinnerCuisineDiffers ==
    /\ \A p \in Procs : pc[p] \in GenLabels =>
          DinnerDiffersFromLunch(Range(local[p].selected))
    /\ \A m \in meal_plans :
          DinnerDiffersFromLunch(StoredKeys(meal_plan_slots, m.id))
    /\ pc[1] = "gen_find" =>
          LET selected == local[1].selected
              scored == SortedScores(local[1].user, local[1].household_size)
          IN  \A i \in 1..Len(selected) :
                 (selected[i][3] = "lunch") =>
                    LET lunch == PositionOf(scored, selected[i][1])
                        others == {k \in (lunch + 1)..Len(scored) :
                                      /\ ~BreakfastOrDessert(scored[k].recipe_id)
                                      /\ scored[k].cuisine # scored[lunch].cuisine}
                    IN  (others = {}) <=> (selected[i][2] \in LunchOnlyDays(selected))

\* a plan stored with a lunch and no dinner on its last filled day, although
\* recipes of the lunch's cuisine that fit a dinner were left
DinnerCuisineDiffersWitness ==
    /\ last.op = "generate_week_plan" /\ last.status = "Ok"
    /\ pc[1] = "idle"
    /\ \E s \in SlotsOf(meal_plan_slots, last.value) :
          /\ s.meal_type = "lunch"
          /\ \A t \in SlotsOf(meal_plan_slots, last.value) :
                t.day_of_week = s.day_of_week => t = s
          /\ \E t \in SlotsOf(meal_plan_slots, last.value) :
                t.meal_type = "dinner" /\ t.day_of_week < s.day_of_week
          /\ \E rid \in DOMAIN recipes :
                /\ rid \notin {t.recipe_id : t \in SlotsOf(meal_plan_slots, last.value)}
                /\ rid \notin RecentRecipes("u1")
                /\ ~BreakfastOrDessert(rid)
                /\ recipes[rid].cuisine = recipes[s.recipe_id].cuisine

\* the recipes of the catalog the user has not cooked recently and that fit
\* lunch or dinner
EligibleRecipes(u) ==
    {rid \in DOMAIN recipes \ RecentRecipes(u) :
        \/ fits_meal_type(recipes[rid].category, "lunch")
        \/ fits_meal_type(recipes[rid].category, "dinner")}

\* C21: no recipe is in two slots of a plan: the recipe ids of the selected
\* slots, and of the slots of the plan stored, are pairwise distinct, and the
\* plan has no more slots than there are recipes not cooked recently that
\* fit lunch or dinner
NoRecipeTwiceInPlan ==
    [][\A p \in Procs :
          /\ (pc[p] = "gen_load" /\ pc'[p] = "gen_find") =>
                LET selected == local'[p].selected IN
                /\ \A i, j \in 1..Len(selected) :
                      selected[i][1] = selected[j][1] => i = j
                /\ Len(selected) <= Cardinality(EligibleRecipes(local[p].user))
          /\ Returns(p, GenLabels, "Ok") =>
                LET slots == SlotsOf(meal_plan_slots', last'.value) IN
                /\ \A s, t \in slots : s.recipe_id = t.recipe_id => s = t
                /\ Cardinality(slots) <= Cardinality(EligibleRecipes(local[p].user))
      ]_vars

\* a plan stored with fewer than 14 slots that holds every recipe that could
\* be planned, each once
NoRecipeTwiceInPlanWitness ==
    /\ last.op = "generate_week_plan" /\ last.status = "Ok"
    /\ pc[1] = "idle"
    /\ Cardinality(EligibleRecipes("u1")) >= 3
    /\ Cardinality(EligibleRecipes("u1")) < 2 * DAYS_PER_WEEK
    /\ {s.recipe_id : s \in SlotsOf(meal_plan_slots, last.value)} = EligibleRecipes("u1")
    /\ Cardinality(SlotsOf(meal_plan_slots, last.value))
          = Cardinality(EligibleRecipes("u1"))

\* the components with data: as ScoreComponents, but the ingredient
\* component is the mean over the ingredients with a stored weight and is
\* absent when the recipe has none
ComponentsWithData(pref, recipe) ==
    {c \in ScoreComponents(pref, recipe) : c[1] # "ingredients"}
    \cup (LET known == IngredientNames(recipe) \cap DOMAIN pref.ingredient_weights
          IN  IF known = {} THEN {}
              ELSE {<<"ingredients",
                      SumOver(pref.ingredient_weights, known) \div Cardinality(known)>>})

\* C22: the score is the average over the components that had data: a
\* cuisine, difficulty or ingredient without stored weight is left out, and
\* the ingredient component is the mean over the ingredients with a stored
\* weight, absent when there is none
ScoreAveragesKnownComponents ==
    [][(last'.op = "score_recipe_for_user" /\ last'.status = "Ok") =>
          LET pref == GetOrCreateRow(user_preferences, last'.user)
              cs == ComponentsWithData(pref, recipes[last'.recipe])
              raw == IF cs = {} THEN 0
                     ELSE SumOver([c \in cs |-> c[2]], cs) \div Cardinality(cs)
          IN  last'.value = Max(0, Min(One, raw))
      ]_vars

\* the list is in descending order of total_score, equal scores by
\* ascending recipe id
DescendingThenById(scored) ==
    \A i, j \in 1..Len(scored) :
        i < j => \/ scored[i].total_score > scored[j].total_score
                 \/ /\ scored[i].total_score = scored[j].total_score
                    /\ scored[i].recipe_id < scored[j].recipe_id

\* C23: the list the selection reads is the scored candidates sorted by
\* total_score in descending order, candidates of equal total_score in
\* their input order, ascending recipe id
SortedDescendingStable ==
    [][\A p \in Procs : (pc[p] = "gen_load" /\ pc'[p] = "gen_find") =>
          LET u == local[p].user
              hh == local[p].household_size
              scored == Scored(u, GetOrCreateRow(user_preferences, u), hh)
              sorted == SortedScores(u, hh)
          IN  /\ DescendingThenById(sorted)
              /\ Len(sorted) = Len(scored)
              /\ Range(sorted) = Range(scored)
              /\ \A i \in 1..Len(scored) : scored[i].recipe_id = Candidates(u)[i]
              /\ local'[p].selected = SelectFrom(sorted, 0, 1, <<>>)
      ]_vars

\* a selection was made from a list with two candidates of equal score and
\* with a candidate that the sort moved ahead of one with a smaller id
SortedDescendingStableWitness ==
    /\ pc[1] = "gen_find"
    /\ LET sorted == SortedScores(local[1].user, local[1].household_size)
       IN  /\ \E i, j \in 1..Len(sorted) :
                 /\ i < j
                 /\ sorted[i].total_score = sorted[j].total_score
           /\ \E i, j \in 1..Len(sorted) :
                 /\ i < j
                 /\ sorted[i].recipe_id > sorted[j].recipe_id

\* C24: record_interaction changes preferred_time_min only on a signal of
\* positive value for a recipe with a total time, and then to the running
\* mean (old * count + time) / (count + 1) in whole minutes, count being the
\* interaction_count before the call; on a signal of value <= 0, and for a
\* recipe without total time, it is left as it was
PreferredTimeRunningMean ==
    [][Returns(1, {"rec_update"}, "Ok") =>
          LET l == local[1]
              old == user_preferences[l.user]
              new == user_preferences'[l.user]
              recipe == recipes[l.recipe]
              count == old.interaction_count
          IN  IF SignalValue(l.signal) > 0 /\ IsSome(recipe.total_time_min)
              THEN LET total == old.preferred_time_min * count
                                   + Get(recipe.total_time_min)
                   IN  /\ (count + 1) * new.preferred_time_min <= total
                       /\ total < (count + 1) * (new.preferred_time_min + 1)
              ELSE new.preferred_time_min = old.preferred_time_min
      ]_vars

\* after a signal of negative value and one of positive value the preferred
\* time is 31: the mean of 30 and 33 in whole minutes
PreferredTimeRunningMeanWitness ==
    /\ last.op = "record_interaction" /\ last.status = "Ok"
    /\ pc[1] = "idle"
    /\ user_preferences["u1"] # NoRow
    /\ user_preferences["u1"].interaction_count = 2
    /\ user_preferences["u1"].preferred_time_min = 31

\* C25: every record_interaction call adds exactly 1 to the user's
\* interaction_count, whatever the signal and the recipe's features: after n
\* calls made one after the other, from a user without row, the count is n
InteractionCountCountsCalls ==
    /\ pc[1] = "idle" =>
          IF calls = 0 THEN user_preferences["u1"] = NoRow
          ELSE /\ user_preferences["u1"] # NoRow
               /\ user_preferences["u1"].interaction_count = calls
    /\ pc[1] = "rec_update" =>
          /\ local[1].new.interaction_count = calls
          /\ user_preferences["u1"].interaction_count = calls - 1

\* three calls have returned, the last for the recipe without difficulty,
\* time and ingredient weight and with a signal of negative value
InteractionCountCountsCallsWitness ==
    /\ pc[1] = "idle"
    /\ calls = 3
    /\ last.op = "record_interaction" /\ last.status = "Ok"
    /\ user_preferences["u1"].interaction_count = 3
    /\ "japanese" \in DOMAIN user_preferences["u1"].cuisine_weights
    /\ user_preferences["u1"].cuisine_weights["japanese"] < 0

\* the grams to buy of ingredient k according to the list, 0 without entry
ToBuy(list, k) ==
    LET entries == {i \in 1..Len(list) : list[i].ingredient_id = k}
    IN  IF entries = {} THEN 0 ELSE list[CHOOSE i \in entries : TRUE].to_buy_grams

\* C26: the shopping list is computed from the incomplete slots only: the
\* needed_grams of every entry is what the recipes of the incomplete slots
\* of the week's plan require, so that a list built for the same plan and
\* from the same inventory after slots were completed has no entry the
\* earlier list had not and no to_buy_grams above the earlier one
ShoppingListShrinksOnCompletion ==
    [][Returns(1, {"shop_inventory"}, "Ok") =>
          LET needed == NeededNow(local[1].user, local[1].week_start)
              list == last'.value
          IN  /\ \A i \in 1..Len(list) :
                    /\ list[i].ingredient_id \in DOMAIN needed
                    /\ list[i].needed_grams = needed[list[i].ingredient_id]
              /\ (listed.plan = local[1].plan /\ listed'.have = listed.have) =>
                    \A i \in 1..Len(list) :
                        /\ ToBuy(listed.list, list[i].ingredient_id) > 0
                        /\ list[i].to_buy_grams
                              <= ToBuy(listed.list, list[i].ingredient_id)
      ]_vars

\* a slot of the plan was completed between two lists built from the same
\* inventory, and the later list has lost entries
ShoppingListShrinksOnCompletionWitness ==
    /\ last.op = "get_shopping_list" /\ last.status = "Ok"
    /\ pc[1] = "idle"
    /\ last.value = listed.list
    /\ Len(listed.list) < Len(listed.earlier)
    /\ \E s \in SlotsOf(meal_plan_slots, listed.plan) :
          s.is_completed /\ recipes[s.recipe_id].ingredients # {}
    /\ \E s \in SlotsOf(meal_plan_slots, listed.plan) : ~s.is_completed

\* the number of candidates the run has examined so far
Examinations(examined) == SumOver(examined, DOMAIN examined)

\* C27: the selection loop terminates: every run that has started ends,
\* with all 14 slots decided; during the run every candidate of the sorted
\* list is examined at most once, so that the examinations never outnumber
\* the candidates; the slots it ends with are those of the selection
SelectionTerminates ==
    /\ [](pc[1] = "select_next" =>
            LET l == local[1] IN
            /\ \A i \in DOMAIN l.examined : l.examined[i] <= 1
            /\ Examinations(l.examined) <= Len(l.scored)
            /\ Examinations(l.examined) = l.cursor - 1
            /\ l.slot <= SLOTS_PER_DAY * DAYS_PER_WEEK
            /\ Len(l.selected) <= l.slot)
    /\ [][(pc[1] = "select_next" /\ pc'[1] = "idle") =>
            /\ local[1].slot = SLOTS_PER_DAY * DAYS_PER_WEEK
            /\ last'.value = SelectFrom(local[1].scored, 0, 1, <<>>)]_vars
    /\ (pc[1] = "select_next") ~> (pc[1] = "idle")

\* a run over a catalog of 20 recipes has ended with more than 2 and fewer
\* than 14 slots filled: a find came to the end of the list
SelectionTerminatesWitness ==
    /\ pc[1] = "idle"
    /\ last.op = "selection" /\ last.status = "Ok"
    /\ Len(last.value) < SLOTS_PER_DAY * DAYS_PER_WEEK
    /\ Len(last.value) > 2
    /\ Cardinality(DOMAIN recipes) = 20

\* C28: record_interaction for a recipe id that does not exist returns
\* NotFound and leaves the store as it was: no preference row is created,
\* no weight, preferred time or interaction_count changes
MissingRecipeLeavesStore ==
    [][(/\ calls' = calls + 1
        /\ last'.op = "record_interaction"
        /\ last'.recipe \notin DOMAIN recipes)
       => /\ last'.status = "NotFound"
          /\ UNCHANGED <<user_preferences, cooking_history, user_favorites,
                         inventory_items, meal_plans, meal_plan_slots>>
      ]_vars

\* the slot keys are those of the first slots of the order, none left out
FirstSlots(keys) ==
    {SlotOrder(k) : k \in keys} = 0..(Cardinality(keys) - 1)

\* C29: the filled slots of a plan are the first slots of the order day 0
\* lunch, day 0 dinner, day 1 lunch, .., day 6 dinner: after a slot left
\* unfilled no later slot is filled, in the selection and in the plan stored
FilledSlotsArePrefix ==
    /\ \A p \in Procs : pc[p] \in GenLabels =>
          /\ FirstSlots(Range(local[p].selected))
          /\ \A i \in 1..Len(local[p].selected) :
                SlotOrder(local[p].selected[i]) = i - 1
    /\ \A m \in meal_plans : FirstSlots(StoredKeys(meal_plan_slots, m.id))

\* a plan stored with a dinner as its last slot and the next day's lunch
\* unfilled, although a recipe that fits a lunch and was not cooked recently
\* is in none of its slots
FilledSlotsArePrefixWitness ==
    /\ last.op = "generate_week_plan" /\ last.status = "Ok"
    /\ pc[1] = "idle"
    /\ LET slots == SlotsOf(meal_plan_slots, last.value) IN
       /\ Cardinality(slots) >= 2
       /\ Cardinality(slots) < 2 * DAYS_PER_WEEK
       /\ Cardinality(slots) % 2 = 0
       /\ \E rid \in EligibleRecipes("u1") :
             /\ rid \notin {s.recipe_id : s \in slots}
             /\ fits_meal_type(recipes[rid].category, "lunch")

MscLabels == {"msc_plan", "msc_slot", "msc_update"}

\* C30: mark_slot_complete(user, plan_id, slot_id) sets is_completed only on
\* a slot of plan plan_id, and only when that plan belongs to the user: no
\* call changes a slot of a plan of another user, and a call that returns
\* NotFound changes no slot
SlotCompletedByOwnerOnly ==
    [][\A p \in Procs : (pc[p] \in MscLabels) =>
          /\ \A s \in meal_plan_slots :
                (\E t \in meal_plan_slots' : t.id = s.id /\ t # s) =>
                    /\ s.id = local[p].slot_id
                    /\ s.meal_plan_id = local[p].plan_id
                    /\ \E m \in meal_plans :
                          m.id = s.meal_plan_id /\ m.user_id = local[p].user
          /\ Returns(p, MscLabels, "NotFound") => UNCHANGED meal_plan_slots
      ]_vars
====
